---- MODULE Spec2Model ----
(***************************************************************************)
(* Verification model of the Itoyori distributed shared-memory runtime:    *)
(*   - ityr::ori::mem_mapper  (block, cyclic, block_adws policies)         *)
(*   - ityr::common::virtual_mem / reserve_same_vm_coll                    *)
(*   - ityr::checkout_span, make_checkouts, checkout_global_iterators      *)
(*   - ityr::reduce / transform_inclusive_scan (parallel_reduce_generic)   *)
(*   - ityr::min_element / max_element / minmax_element (search_aux)       *)
(*   - ityr::internal::for_each_aux (sequenced policy)                     *)
(*   - ityr::move_backward (sequenced policy)                               *)
(*   - ityr::ori block cache and coherence controller (from the specification)*)
(*   - the tasks of parallel_reduce_generic and their calls into ori and ito*)
(*   - ityr::reducer::histogram                                             *)
(*   - ityr::common::topology::topology (rank maps)                         *)
(*   - ityr::common::mpi_win_manager<void>                                  *)
(***************************************************************************)
EXTENDS Integers, Sequences, FiniteSets, TLC

VARIABLES
  mapper,      \* the constructed mem_mapper object (policy and its fields)
  mcall,       \* the last call made on the mapper and what it returned
  size,        \* reserve_same_vm_coll: the requested size (same on every rank)
  mapped,      \* per rank: the pages of its address space that are mapped
  pc,          \* per rank: position in reserve_same_vm_coll
  n_trial,     \* per rank: loop counter
  leader_rank, \* per rank: leader of the current round
  alloc_size,  \* per rank: attempted size of the current round
  vm_addr,     \* per rank: the broadcast address
  vm,          \* per rank: the virtual_mem object vm
  prev_vms,    \* per rank: the vector of deferred virtual_mem objects
  failed_rank, \* per rank: -1, or the rank itself when its mapping collided
  bcast,       \* the value in flight in mpi_bcast_value, tagged with its round
  rounds,      \* history: leader, address, size and failed ranks of each finished round
  objs,        \* virtual_mem objects of one process: addr_ and size_ of each
  alive,       \* the virtual_mem objects that are constructed and not yet destroyed
  vmapped,     \* the pages of that process's address space that are mapped
  vlast,       \* the last operation on a virtual_mem object and what it did
  spans,       \* checkout_span objects: ptr_, n_ and the Mode of each
  span_alive,  \* the checkout_span objects that are constructed and not yet destroyed
  outstanding, \* ori: per (pointer, length, mode), the checkouts not yet checked in
  slast,       \* the last operation on checkout spans and the ori calls it made
  rin,         \* reduce/scan: the input range, the policy, the reducer kind, the fork outcomes
  rout,        \* reduce/scan: the last call and what it returned and wrote
  sargs,       \* search: the input range, the policy and the kind of value type
  sres,        \* search: the last call, what it returned and the checkouts it issued
  fargs,       \* for_each_aux: n, the policy's checkout_count and the iterators
  fe,          \* for_each_aux: the position in the loop and its local variables
  flog,        \* for_each_aux: the ori calls made, ori's checkouts, the elements visited
  mbargs,      \* move_backward: the memory, first1, last1, first_d and the checkout_count
  mbres,       \* move_backward: the last call, the memory afterwards and what it returned
  ctask,       \* DSM: where the task runs, its position, the release handle it carries
  chome,       \* DSM: per block, the home copy and the owner's epoch
  ccache,      \* DSM: per rank and block, the cache entry
  clru,        \* DSM: per rank, the resident blocks from least to most recently used
  cputs,       \* DSM: the RMA puts issued and not yet completed
  cheld,       \* DSM: per block, the mode of the task's checkout
  chist,       \* DSM: the values the task stored, the blocks touched, the last operation
  pargs,       \* parallel reduction: the length of the range and the policy's cutoff_count
  pinv,        \* parallel reduction: per invocation of parallel_reduce_generic, its position and rh
  pori,        \* parallel reduction: the release handles issued and those with requests in flight
  plog,        \* parallel reduction: the events so far, in the order they happened
  hist,        \* histogram reducer: value type, n_bins_, lowest_ and highest_
  hacc,        \* histogram reducer: the accumulators of the left and of the right half
  hlast,       \* histogram reducer: the last call, and the samples folded so far
  tenv,        \* the process layout and the shared-memory option
  topo,        \* the topology objects constructed, by global rank
  tlast,       \* the last call on a topology object
  wobjs,       \* the mpi_win_manager<void> objects: win_ and baseptr_
  walive,      \* the objects constructed and not destroyed
  wwins,       \* the MPI windows: lock_all, unlock_all and free calls made
  wlast        \* the last operation on an mpi_win_manager<void>

mapperVars == <<mapper, mcall>>

vmVars == <<size, mapped, pc, n_trial, leader_rank, alloc_size, vm_addr, vm,
            prev_vms, failed_rank, bcast, rounds>>

vmemVars == <<objs, alive, vmapped, vlast>>

\* The variables of the components that take no part in the mapper and in
\* reserve_same_vm_coll.
spanVars == <<spans, span_alive, outstanding, slast>>

reduceVars == <<rin, rout>>

searchVars == <<sargs, sres>>

forEachVars == <<fargs, fe, flog>>

moveBackwardVars == <<mbargs, mbres>>

cacheVars == <<ctask, chome, ccache, clru, cputs, cheld, chist>>

parVars == <<pargs, pinv, pori, plog>>

histVars == <<hist, hacc, hlast>>

topoVars == <<tenv, topo, tlast>>

winVars == <<wobjs, walive, wwins, wlast>>

laterVars == <<vmemVars, spanVars, reduceVars, searchVars, forEachVars, moveBackwardVars, cacheVars, parVars, histVars, topoVars, winVars>>

vars == <<mapper, mcall, size, mapped, pc, n_trial, leader_rank, alloc_size,
          vm_addr, vm, prev_vms, failed_rank, bcast, rounds,
          objs, alive, vmapped, vlast, spans, span_alive, outstanding, slast,
          rin, rout, sargs, sres, fargs, fe, flog,
          mbargs, mbres,
          ctask, chome, ccache, clru, cputs, cheld, chist,
          pargs, pinv, pori, plog,
          hist, hacc, hlast,
          tenv, topo, tlast,
          wobjs, walive, wwins, wlast>>

\* A component that takes no part in a specification keeps these values.
MapperIdle == mapper = <<>> /\ mcall = <<>>

VmIdle ==
  /\ size = 0 /\ mapped = <<>> /\ pc = <<>> /\ n_trial = <<>>
  /\ leader_rank = <<>> /\ alloc_size = <<>> /\ vm_addr = <<>> /\ vm = <<>>
  /\ prev_vms = <<>> /\ failed_rank = <<>> /\ bcast = <<>> /\ rounds = <<>>

VmemIdle == objs = <<>> /\ alive = {} /\ vmapped = {} /\ vlast = <<>>

SpanIdle == spans = <<>> /\ span_alive = {} /\ outstanding = <<>> /\ slast = <<>>

ReduceIdle == rin = <<>> /\ rout = <<>>

SearchIdle == sargs = <<>> /\ sres = <<>>

ForEachIdle == fargs = <<>> /\ fe = <<>> /\ flog = <<>>

MoveBackwardIdle == mbargs = <<>> /\ mbres = <<>>

CacheIdle == ctask = <<>> /\ chome = <<>> /\ ccache = <<>> /\ clru = <<>> /\ cputs = {} /\ cheld = <<>> /\ chist = <<>>

ParIdle == pargs = <<>> /\ pinv = <<>> /\ pori = <<>> /\ plog = <<>>

HistIdle == hist = <<>> /\ hacc = <<>> /\ hlast = <<>>

TopoIdle == tenv = <<>> /\ topo = <<>> /\ tlast = <<>>

WinIdle == wobjs = <<>> /\ walive = {} /\ wwins = <<>> /\ wlast = <<>>

LaterIdle == VmemIdle /\ SpanIdle /\ ReduceIdle /\ SearchIdle /\ ForEachIdle /\ MoveBackwardIdle /\ CacheIdle /\ ParIdle /\ HistIdle /\ TopoIdle /\ WinIdle

\* What the specification of one component leaves alone.
notVmem == <<mapperVars, vmVars, spanVars, reduceVars, searchVars, forEachVars, moveBackwardVars, cacheVars, parVars, histVars, topoVars, winVars>>

NotVmemIdle == MapperIdle /\ VmIdle /\ SpanIdle /\ ReduceIdle /\ SearchIdle /\ ForEachIdle /\ MoveBackwardIdle /\ CacheIdle /\ ParIdle /\ HistIdle /\ TopoIdle /\ WinIdle

notSpan == <<mapperVars, vmVars, vmemVars, reduceVars, searchVars, forEachVars, moveBackwardVars, cacheVars, parVars, histVars, topoVars, winVars>>

NotSpanIdle == MapperIdle /\ VmIdle /\ VmemIdle /\ ReduceIdle /\ SearchIdle /\ ForEachIdle /\ MoveBackwardIdle /\ CacheIdle /\ ParIdle /\ HistIdle /\ TopoIdle /\ WinIdle

notReduce == <<mapperVars, vmVars, vmemVars, spanVars, searchVars, forEachVars, moveBackwardVars, cacheVars, parVars, histVars, topoVars, winVars>>

NotReduceIdle == MapperIdle /\ VmIdle /\ VmemIdle /\ SpanIdle /\ SearchIdle /\ ForEachIdle /\ MoveBackwardIdle /\ CacheIdle /\ ParIdle /\ HistIdle /\ TopoIdle /\ WinIdle

notForEach == <<mapperVars, vmVars, vmemVars, spanVars, reduceVars, searchVars, moveBackwardVars, cacheVars, parVars, histVars, topoVars, winVars>>

NotForEachIdle == MapperIdle /\ VmIdle /\ VmemIdle /\ SpanIdle /\ ReduceIdle /\ SearchIdle /\ MoveBackwardIdle /\ CacheIdle /\ ParIdle /\ HistIdle /\ TopoIdle /\ WinIdle

notSearch == <<mapperVars, vmVars, vmemVars, spanVars, reduceVars, forEachVars, moveBackwardVars, cacheVars, parVars, histVars, topoVars, winVars>>

NotSearchIdle == MapperIdle /\ VmIdle /\ VmemIdle /\ SpanIdle /\ ReduceIdle /\ ForEachIdle /\ MoveBackwardIdle /\ CacheIdle /\ ParIdle /\ HistIdle /\ TopoIdle /\ WinIdle

notMoveBackward == <<mapperVars, vmVars, vmemVars, spanVars, reduceVars, searchVars, forEachVars, cacheVars, parVars, histVars, topoVars, winVars>>

NotMoveBackwardIdle == MapperIdle /\ VmIdle /\ VmemIdle /\ SpanIdle /\ ReduceIdle /\ SearchIdle /\ ForEachIdle /\ CacheIdle /\ ParIdle /\ HistIdle /\ TopoIdle /\ WinIdle

notCache == <<mapperVars, vmVars, vmemVars, spanVars, reduceVars, searchVars, forEachVars, moveBackwardVars, parVars, histVars, topoVars, winVars>>

NotCacheIdle == MapperIdle /\ VmIdle /\ VmemIdle /\ SpanIdle /\ ReduceIdle /\ SearchIdle /\ ForEachIdle /\ MoveBackwardIdle /\ ParIdle /\ HistIdle /\ TopoIdle /\ WinIdle

notPar == <<mapperVars, vmVars, vmemVars, spanVars, reduceVars, searchVars, forEachVars, moveBackwardVars, cacheVars, histVars, topoVars, winVars>>

NotParIdle == MapperIdle /\ VmIdle /\ VmemIdle /\ SpanIdle /\ ReduceIdle /\ SearchIdle /\ ForEachIdle /\ MoveBackwardIdle /\ CacheIdle /\ HistIdle /\ TopoIdle /\ WinIdle

notHist == <<mapperVars, vmVars, vmemVars, spanVars, reduceVars, searchVars, forEachVars, moveBackwardVars, cacheVars, parVars, topoVars, winVars>>

NotHistIdle == MapperIdle /\ VmIdle /\ VmemIdle /\ SpanIdle /\ ReduceIdle /\ SearchIdle /\ ForEachIdle /\ MoveBackwardIdle /\ CacheIdle /\ ParIdle /\ TopoIdle /\ WinIdle

notTopo == <<mapperVars, vmVars, vmemVars, spanVars, reduceVars, searchVars, forEachVars, moveBackwardVars, cacheVars, parVars, histVars, winVars>>

NotTopoIdle == MapperIdle /\ VmIdle /\ VmemIdle /\ SpanIdle /\ ReduceIdle /\ SearchIdle /\ ForEachIdle /\ MoveBackwardIdle /\ CacheIdle /\ ParIdle /\ HistIdle /\ WinIdle

notWin == <<mapperVars, vmVars, vmemVars, spanVars, reduceVars, searchVars, forEachVars, moveBackwardVars, cacheVars, parVars, histVars, topoVars>>

NotWinIdle == MapperIdle /\ VmIdle /\ VmemIdle /\ SpanIdle /\ ReduceIdle /\ SearchIdle /\ ForEachIdle /\ MoveBackwardIdle /\ CacheIdle /\ ParIdle /\ HistIdle /\ TopoIdle

Max(a, b) == IF a >= b THEN a ELSE b

Min(a, b) == IF a <= b THEN a ELSE b

(***************************************************************************)
(* mem_mapper                                                              *)
(***************************************************************************)

\* Template parameter BlockSize, scaled down from 65536.
BlockSize == 2

\* Largest size_ constructed, in blocks.
MaxBlk == 14

\* Largest n_inter_ranks_ constructed.
MaxRanks == 4

\* Largest cyclic seg_size_, in blocks.
MaxSegBlk == 2

\* Largest n_intra_ranks_ constructed.
MaxIntraRanks == 3

Policies == {"block", "cyclic", "block_adws"}

\* block::block / block_adws::block_adws : n_blk_
n_blk(m) == (m.size_ + BlockSize - 1) \div BlockSize

\* Variant of block::get_seg_range that rounds the bounds down instead of up.
block_get_seg_range_floor(m, seg_id) ==
  [blk_id_b |-> (seg_id * n_blk(m)) \div m.n_inter_ranks_,
   blk_id_e |-> ((seg_id + 1) * n_blk(m)) \div m.n_inter_ranks_]

\* block::get_seg_range
block_get_seg_range(m, seg_id) ==
  [blk_id_b |-> (seg_id * n_blk(m) + m.n_inter_ranks_ - 1) \div m.n_inter_ranks_,
   blk_id_e |-> ((seg_id + 1) * n_blk(m) + m.n_inter_ranks_ - 1) \div m.n_inter_ranks_]

\* Variant of block::local_size without the std::max(1, ...) round-up.
block_local_size_nomax(m, inter_rank) ==
  LET r == block_get_seg_range(m, inter_rank)
  IN  (r.blk_id_e - r.blk_id_b) * BlockSize

\* block::local_size
block_local_size(m, inter_rank) ==
  LET r == block_get_seg_range(m, inter_rank)
  IN  Max(1, r.blk_id_e - r.blk_id_b) * BlockSize

\* block::effective_size
block_effective_size(m) == n_blk(m) * BlockSize

\* block::get_segment: the returned segment, and whether its ITYR_CHECKs pass
block_get_segment(m, offset) ==
  LET blk_id == offset \div BlockSize
      seg_id == (blk_id * m.n_inter_ranks_) \div n_blk(m)
      r      == block_get_seg_range(m, seg_id)
  IN  [owner     |-> seg_id,
       offset_b  |-> r.blk_id_b * BlockSize,
       offset_e  |-> r.blk_id_e * BlockSize,
       pm_offset |-> 0,
       checks    |-> /\ offset < block_effective_size(m)
                     /\ r.blk_id_b <= blk_id
                     /\ blk_id < r.blk_id_e]

\* cyclic::local_size_impl
cyclic_local_size_impl(m) ==
  LET n_blk_g == (m.size_ + m.seg_size_ - 1) \div m.seg_size_
      n_blk_l == (n_blk_g + m.n_inter_ranks_ - 1) \div m.n_inter_ranks_
  IN  n_blk_l * m.seg_size_

\* cyclic::local_size
cyclic_local_size(m, inter_rank) == cyclic_local_size_impl(m)

\* cyclic::effective_size
cyclic_effective_size(m) == cyclic_local_size_impl(m) * m.n_inter_ranks_

\* Variant of cyclic::get_segment whose range ends one BlockSize (not one
\* seg_size_) after its beginning.
cyclic_get_segment_blockend(m, offset) ==
  LET blk_id_g == offset \div m.seg_size_
      blk_id_l == blk_id_g \div m.n_inter_ranks_
  IN  [owner     |-> blk_id_g % m.n_inter_ranks_,
       offset_b  |-> blk_id_g * m.seg_size_,
       offset_e  |-> blk_id_g * m.seg_size_ + BlockSize,
       pm_offset |-> blk_id_l * m.seg_size_,
       checks    |-> offset < cyclic_effective_size(m)]

\* Variant of cyclic::get_segment whose pm_offset uses the global segment index.
cyclic_get_segment_globalpm(m, offset) ==
  LET blk_id_g == offset \div m.seg_size_
  IN  [owner     |-> blk_id_g % m.n_inter_ranks_,
       offset_b  |-> blk_id_g * m.seg_size_,
       offset_e  |-> (blk_id_g + 1) * m.seg_size_,
       pm_offset |-> blk_id_g * m.seg_size_,
       checks    |-> offset < cyclic_effective_size(m)]

\* cyclic::get_segment
cyclic_get_segment(m, offset) ==
  LET blk_id_g == offset \div m.seg_size_
      blk_id_l == blk_id_g \div m.n_inter_ranks_
  IN  [owner     |-> blk_id_g % m.n_inter_ranks_,
       offset_b  |-> blk_id_g * m.seg_size_,
       offset_e  |-> (blk_id_g + 1) * m.seg_size_,
       pm_offset |-> blk_id_l * m.seg_size_,
       checks    |-> offset < cyclic_effective_size(m)]

\* Variant of block_adws::get_seg_range that rounds the bounds up, as block does.
block_adws_get_seg_range_ceil(m, seg_id) ==
  [blk_id_b |-> (seg_id * n_blk(m) + m.n_inter_ranks_ - 1) \div m.n_inter_ranks_,
   blk_id_e |-> ((seg_id + 1) * n_blk(m) + m.n_inter_ranks_ - 1) \div m.n_inter_ranks_]

\* block_adws::get_seg_range
block_adws_get_seg_range(m, seg_id) ==
  [blk_id_b |-> (seg_id * n_blk(m)) \div m.n_inter_ranks_,
   blk_id_e |-> ((seg_id + 1) * n_blk(m)) \div m.n_inter_ranks_]

\* block_adws::local_size
block_adws_local_size(m, inter_rank) ==
  LET seg_id == m.n_inter_ranks_ - inter_rank - 1
      r      == block_adws_get_seg_range(m, seg_id)
  IN  Max(1, r.blk_id_e - r.blk_id_b) * BlockSize

\* block_adws::effective_size
block_adws_effective_size(m) == n_blk(m) * BlockSize

\* Variant of block_adws::get_segment that returns seg_id as the owner.
block_adws_get_segment_noreflect(m, offset) ==
  LET blk_id == offset \div BlockSize
      seg_id == (((blk_id + 1) * m.n_inter_ranks_ + n_blk(m) - 1) \div n_blk(m)) - 1
      r      == block_adws_get_seg_range(m, seg_id)
  IN  [owner     |-> seg_id,
       offset_b  |-> r.blk_id_b * BlockSize,
       offset_e  |-> r.blk_id_e * BlockSize,
       pm_offset |-> 0,
       checks    |-> /\ offset < block_adws_effective_size(m)
                     /\ r.blk_id_b <= blk_id
                     /\ blk_id < r.blk_id_e]

\* block_adws::get_segment
block_adws_get_segment(m, offset) ==
  LET blk_id == offset \div BlockSize
      seg_id == (((blk_id + 1) * m.n_inter_ranks_ + n_blk(m) - 1) \div n_blk(m)) - 1
      r      == block_adws_get_seg_range(m, seg_id)
  IN  [owner     |-> m.n_inter_ranks_ - seg_id - 1,
       offset_b  |-> r.blk_id_b * BlockSize,
       offset_e  |-> r.blk_id_e * BlockSize,
       pm_offset |-> 0,
       checks    |-> /\ offset < block_adws_effective_size(m)
                     /\ r.blk_id_b <= blk_id
                     /\ blk_id < r.blk_id_e]

\* Variant of block::get_numa_segment that rounds the bounds down, as block_adws
\* does.
block_get_numa_segment_floor(m, inter_rank, pm_offset) ==
  LET n_numa_blk == (block_local_size(m, inter_rank) + BlockSize - 1) \div BlockSize
      blk_id     == pm_offset \div BlockSize
      seg_id     == (blk_id * m.n_intra_ranks_) \div n_numa_blk
      blk_id_b   == (seg_id * n_numa_blk) \div m.n_intra_ranks_
      blk_id_e   == ((seg_id + 1) * n_numa_blk) \div m.n_intra_ranks_
  IN  [owner       |-> seg_id,
       pm_offset_b |-> blk_id_b * BlockSize,
       pm_offset_e |-> blk_id_e * BlockSize,
       checks      |-> /\ pm_offset < block_local_size(m, inter_rank)
                       /\ blk_id_b <= blk_id
                       /\ blk_id < blk_id_e]

\* block::get_numa_segment: the returned numa_segment, and whether its
\* ITYR_CHECKs pass
block_get_numa_segment(m, inter_rank, pm_offset) ==
  LET n_numa_blk == (block_local_size(m, inter_rank) + BlockSize - 1) \div BlockSize
      blk_id     == pm_offset \div BlockSize
      seg_id     == (blk_id * m.n_intra_ranks_) \div n_numa_blk
      blk_id_b   == (seg_id * n_numa_blk + m.n_intra_ranks_ - 1) \div m.n_intra_ranks_
      blk_id_e   == ((seg_id + 1) * n_numa_blk + m.n_intra_ranks_ - 1) \div m.n_intra_ranks_
  IN  [owner       |-> seg_id,
       pm_offset_b |-> blk_id_b * BlockSize,
       pm_offset_e |-> blk_id_e * BlockSize,
       checks      |-> /\ pm_offset < block_local_size(m, inter_rank)
                       /\ blk_id_b <= blk_id
                       /\ blk_id < blk_id_e]

\* cyclic::get_numa_segment: interleave all
cyclic_get_numa_segment(m, inter_rank, pm_offset) ==
  [owner       |-> -1,
   pm_offset_b |-> 0,
   pm_offset_e |-> cyclic_local_size(m, inter_rank),
   checks      |-> TRUE]

\* block_adws::get_numa_segment
block_adws_get_numa_segment(m, inter_rank, pm_offset) ==
  LET n_numa_blk == (block_adws_local_size(m, inter_rank) + BlockSize - 1) \div BlockSize
      blk_id     == pm_offset \div BlockSize
      seg_id     == (((blk_id + 1) * m.n_intra_ranks_ + n_numa_blk - 1) \div n_numa_blk) - 1
      blk_id_b   == (seg_id * n_numa_blk) \div m.n_intra_ranks_
      blk_id_e   == ((seg_id + 1) * n_numa_blk) \div m.n_intra_ranks_
  IN  [owner       |-> m.n_intra_ranks_ - seg_id - 1,
       pm_offset_b |-> blk_id_b * BlockSize,
       pm_offset_e |-> blk_id_e * BlockSize,
       checks      |-> /\ pm_offset < block_adws_local_size(m, inter_rank)
                       /\ blk_id_b <= blk_id
                       /\ blk_id < blk_id_e]

\* base::get_numa_segment (virtual dispatch)
get_numa_segment(m, inter_rank, pm_offset) ==
  CASE m.policy = "block"      -> block_get_numa_segment(m, inter_rank, pm_offset)
    [] m.policy = "cyclic"     -> cyclic_get_numa_segment(m, inter_rank, pm_offset)
    [] m.policy = "block_adws" -> block_adws_get_numa_segment(m, inter_rank, pm_offset)

\* Variant of should_map_all_home that is true for every policy.
should_map_all_home_always(m) == TRUE

\* block::should_map_all_home, cyclic::should_map_all_home and
\* block_adws::should_map_all_home (virtual dispatch)
should_map_all_home(m) ==
  CASE m.policy = "block"      -> TRUE
    [] m.policy = "cyclic"     -> FALSE
    [] m.policy = "block_adws" -> TRUE

\* base::get_segment (virtual dispatch)
get_segment(m, offset) ==
  CASE m.policy = "block"      -> block_get_segment(m, offset)
    [] m.policy = "cyclic"     -> cyclic_get_segment(m, offset)
    [] m.policy = "block_adws" -> block_adws_get_segment(m, offset)

\* base::local_size (virtual dispatch)
local_size(m, inter_rank) ==
  CASE m.policy = "block"      -> block_local_size(m, inter_rank)
    [] m.policy = "cyclic"     -> cyclic_local_size(m, inter_rank)
    [] m.policy = "block_adws" -> block_adws_local_size(m, inter_rank)

\* base::effective_size (virtual dispatch)
effective_size(m) ==
  CASE m.policy = "block"      -> block_effective_size(m)
    [] m.policy = "cyclic"     -> cyclic_effective_size(m)
    [] m.policy = "block_adws" -> block_adws_effective_size(m)

\* The mapper objects constructed: block(size, R, _), block_adws(size, R, _),
\* cyclic(size, R, _, seg_size) with seg_size >= BlockSize, seg_size % BlockSize = 0.
Mappers ==
  [policy : {"block", "block_adws"}, size_ : 1..(MaxBlk * BlockSize),
   n_inter_ranks_ : 1..MaxRanks, n_intra_ranks_ : 1..MaxIntraRanks,
   seg_size_ : {BlockSize}]
  \cup
  [policy : {"cyclic"}, size_ : 1..(MaxBlk * BlockSize),
   n_inter_ranks_ : 1..MaxRanks, n_intra_ranks_ : 1..MaxIntraRanks,
   seg_size_ : {k * BlockSize : k \in 1..MaxSegBlk}]

NoCall == [op |-> "none"]

MapperInit ==
  /\ mapper \in Mappers
  /\ mcall = NoCall
  /\ size = 0 /\ mapped = <<>> /\ pc = <<>> /\ n_trial = <<>>
  /\ leader_rank = <<>> /\ alloc_size = <<>> /\ vm_addr = <<>> /\ vm = <<>>
  /\ prev_vms = <<>> /\ failed_rank = <<>> /\ bcast = <<>> /\ rounds = <<>>
  /\ LaterIdle

\* A call of get_segment(offset) within the contract offset < effective_size().
GetSegment ==
  \E offset \in 0..(effective_size(mapper) - 1) :
    /\ mcall' = [op |-> "get_segment", offset |-> offset,
                 ret |-> get_segment(mapper, offset)]
    /\ UNCHANGED mapper
    /\ UNCHANGED <<vmVars, laterVars>>

\* A call of local_size(inter_rank).
LocalSize ==
  \E inter_rank \in 0..(mapper.n_inter_ranks_ - 1) :
    /\ mcall' = [op |-> "local_size", inter_rank |-> inter_rank,
                 ret |-> local_size(mapper, inter_rank)]
    /\ UNCHANGED mapper
    /\ UNCHANGED <<vmVars, laterVars>>

\* A call of get_numa_segment(inter_rank, pm_offset) within the contract
\* pm_offset < local_size(inter_rank).
GetNumaSegment ==
  \E inter_rank \in 0..(mapper.n_inter_ranks_ - 1) :
    \E pm_offset \in 0..(local_size(mapper, inter_rank) - 1) :
      /\ mcall' = [op |-> "get_numa_segment", inter_rank |-> inter_rank,
                   pm_offset |-> pm_offset,
                   ret |-> get_numa_segment(mapper, inter_rank, pm_offset)]
      /\ UNCHANGED mapper
      /\ UNCHANGED <<vmVars, laterVars>>

\* A call of should_map_all_home().
ShouldMapAllHome ==
  /\ mcall' = [op |-> "should_map_all_home", ret |-> should_map_all_home(mapper)]
  /\ UNCHANGED mapper
  /\ UNCHANGED <<vmVars, laterVars>>

MapperNext == GetSegment \/ LocalSize \/ GetNumaSegment \/ ShouldMapAllHome

MapperSpec == MapperInit /\ [][MapperNext]_vars

(***************************************************************************)
(* virtual_mem and reserve_same_vm_coll                                    *)
(***************************************************************************)

\* Number of ranks calling reserve_same_vm_coll collectively.
NRanks == 4

\* get_page_size(), scaled down from 4096.
PageSize == 2

\* max_trial, scaled down from 100.
MaxTrial == 2

\* The cap of alloc_size_max in pages, scaled down from (1 << 40) bytes.
MaxAllocPages == 3

\* Mappings that exist before the call lie in pages 1..MaxForeignPage.
MaxForeignPage == 5

\* The default alignment alignof(max_align_t): smaller than a page.
Alignment == Max(1, PageSize \div 2)

\* Pages of the address space; page p begins at address p * PageSize, so that
\* address 0 is nullptr.  Large enough for every reservation kept in a call.
NPages == MaxForeignPage + (MaxTrial + 1) * (MaxAllocPages + 1) - 1

Ranks == 0..(NRanks - 1)

Pages == 1..NPages

\* The requested sizes: less than a page, and just below the cap.
ReqSizes == {PageSize - 1, MaxAllocPages * PageSize - 1}

\* round_up_pow2(x, a) for a power of two a (ityr/common/util.hpp)
round_up_pow2(x, a) == ((x + a - 1) \div a) * a

\* The pages that an mmap or munmap of [addr, addr + len) covers.
PagesOf(addr, len) ==
  {p \in Pages : p * PageSize < addr + len /\ addr < (p + 1) * PageSize}

\* virtual_mem(): addr_ = nullptr; size_ is left indeterminate and is read only
\* by the overlap test of a deferred entry that was reset, whose outcome changes nothing.
NullVm == [addr |-> 0, size_ |-> 0]

\* The addresses at which the kernel may place an anonymous mapping of len bytes
\* in an address space whose mapped pages are M.
MmapPlacements(M, len) ==
  {p * PageSize : p \in {q \in Pages :
      /\ (q * PageSize + len - 1) \div PageSize \in Pages
      /\ PagesOf(q * PageSize, len) \cap M = {}}}

\* mmap_no_physical_mem(nullptr, sz, false, alignment) with the kernel placing the
\* mapping at allocated_addr: the returned address and the pages mapped afterwards.
mmap_no_physical_mem_null(M, allocated_addr, sz) ==
  LET mmap_size          == sz + Alignment
      ret_addr           == round_up_pow2(allocated_addr, Alignment)
      M1                 == M \cup PagesOf(allocated_addr, mmap_size)
      M2                 == IF ret_addr - allocated_addr > 0
                            THEN M1 \ PagesOf(allocated_addr, ret_addr - allocated_addr)
                            ELSE M1
      allocated_addr_end == allocated_addr + mmap_size
      ret_page_end       == round_up_pow2(ret_addr + sz, PageSize)
      M3                 == IF allocated_addr_end - ret_page_end > 0
                            THEN M2 \ PagesOf(ret_page_end, allocated_addr_end - ret_page_end)
                            ELSE M2
  IN  [addr |-> ret_addr, mapped |-> M3]

\* mmap_no_physical_mem(addr, sz, false, alignment) with MAP_FIXED_NOREPLACE:
\* EEXIST (mmap_noreplace_exception) when the range overlaps a mapping.
mmap_no_physical_mem_fixed(M, addr, sz) ==
  IF PagesOf(addr, sz) \cap M # {}
  THEN [ok |-> FALSE, mapped |-> M]
  ELSE [ok |-> TRUE, mapped |-> M \cup PagesOf(addr, sz)]

\* virtual_mem::destroy: the pages mapped afterwards
destroy(v, M) == IF v.addr # 0 THEN M \ PagesOf(v.addr, v.size_) ELSE M

\* ~vector<virtual_mem>: every entry is destroyed
destroy_all(pv, M) ==
  M \ UNION {PagesOf(pv[i].addr, pv[i].size_) : i \in {j \in DOMAIN pv : pv[j].addr # 0}}

\* Variant of virtual_mem::shrink that leaves the object and its mapping as they are.
shrink_nothing(v, to_size, M) == [vm |-> v, mapped |-> M]

\* virtual_mem::shrink
shrink(v, to_size, M) ==
  LET curr_page_end == round_up_pow2(v.size_, PageSize)
      next_page_end == round_up_pow2(to_size, PageSize)
  IN  [vm     |-> [v EXCEPT !.size_ = to_size],
       mapped |-> IF curr_page_end > next_page_end
                  THEN M \ PagesOf(v.addr + next_page_end, curr_page_end - next_page_end)
                  ELSE M]

\* Variant of the overlap test that finds no overlap.
overlaps_never(prev_vm, addr, sz) == FALSE

\* The overlap test of a deferred reservation with [addr, addr + sz)
overlaps(prev_vm, addr, sz) ==
  prev_vm.addr < addr + sz /\ addr < prev_vm.addr + prev_vm.size_

\* Variant of the loop over prev_vms that resets every entry.
free_overlapping_all(pv, addr, sz) == [i \in DOMAIN pv |-> NullVm]

\* The loop over prev_vms: every overlapping entry is move-assigned virtual_mem()
free_overlapping(pv, addr, sz) ==
  [i \in DOMAIN pv |-> IF overlaps(pv[i], addr, sz) THEN NullVm ELSE pv[i]]

\* Variant of alloc_size_max without the (1 << 40) term: the first attempted size.
alloc_size_max_first(sz) == round_up_pow2(sz, PageSize)

\* alloc_size_max
alloc_size_max(sz) == Max(round_up_pow2(sz, PageSize), MaxAllocPages * PageSize)

\* Variant of the choice of the next leader: the leader stays.
next_leader_same(failed) == leader_rank[0]

\* Variant of the choice of the next leader: the lowest failed rank.
next_leader_min(failed) == CHOOSE r \in failed : \A q \in failed : q >= r

\* mpi_allreduce_value(failed_rank, MPI_MAX) over a non-empty set of failed ranks
next_leader(failed) == CHOOSE r \in failed : \A q \in failed : q <= r

\* Variant of the loop condition that stops one attempt early.
loop_cond_strict(n) == n < MaxTrial

\* The loop condition n_trial <= max_trial
loop_cond(n) == n <= MaxTrial

\* Mappings that exist in a rank's address space before the call.
ForeignSets == {{}} \cup {{p} : p \in 1..MaxForeignPage}

VmInit ==
  /\ size \in ReqSizes
  /\ mapped \in [Ranks -> ForeignSets]
  /\ pc = [r \in Ranks |-> "loop"]
  /\ n_trial = [r \in Ranks |-> 0]
  /\ leader_rank = [r \in Ranks |-> 0]
  /\ alloc_size = [r \in Ranks |-> round_up_pow2(size, PageSize)]
  /\ vm_addr = [r \in Ranks |-> 0]
  /\ vm = [r \in Ranks |-> NullVm]
  /\ prev_vms = [r \in Ranks |-> <<>>]
  /\ failed_rank = [r \in Ranks |-> -1]
  /\ bcast = [n_trial |-> -1, vm_addr |-> 0]
  /\ rounds = <<>>
  /\ mapper = <<>> /\ mcall = <<>>
  /\ LaterIdle

\* The leader's part of a round: vm = virtual_mem(alloc_size, alignment),
\* then mpi_bcast_value(vm_addr, leader_rank) and, on the leader, failed_rank = -1.
LeaderReserve(r) ==
  /\ pc[r] = "loop"
  /\ loop_cond(n_trial[r])
  /\ r = leader_rank[r]
  /\ \E a \in MmapPlacements(mapped[r], alloc_size[r] + Alignment) :
       LET got == mmap_no_physical_mem_null(mapped[r], a, alloc_size[r])
       IN  /\ mapped' = [mapped EXCEPT ![r] = destroy(vm[r], got.mapped)]
           /\ vm' = [vm EXCEPT ![r] = [addr |-> got.addr, size_ |-> alloc_size[r]]]
           /\ vm_addr' = [vm_addr EXCEPT ![r] = got.addr]
           /\ bcast' = [n_trial |-> n_trial[r], vm_addr |-> got.addr]
  /\ failed_rank' = [failed_rank EXCEPT ![r] = -1]
  /\ pc' = [pc EXCEPT ![r] = "reduce"]
  /\ UNCHANGED <<size, n_trial, leader_rank, alloc_size, prev_vms, rounds>>
  /\ UNCHANGED <<mapperVars, laterVars>>

\* A follower's part of a round: receive the broadcast address, unmap the deferred
\* reservations that overlap it, then vm = virtual_mem(vm_addr, alloc_size, alignment).
FollowerMap(r) ==
  /\ pc[r] = "loop"
  /\ loop_cond(n_trial[r])
  /\ r # leader_rank[r]
  /\ bcast.n_trial = n_trial[r]
  /\ LET addr  == bcast.vm_addr
         pv    == free_overlapping(prev_vms[r], addr, alloc_size[r])
         freed == {i \in DOMAIN pv : pv[i] # prev_vms[r][i]}
         M1    == destroy_all([i \in freed |-> prev_vms[r][i]], mapped[r])
         got   == mmap_no_physical_mem_fixed(M1, addr, alloc_size[r])
     IN  /\ vm_addr' = [vm_addr EXCEPT ![r] = addr]
         /\ prev_vms' = [prev_vms EXCEPT ![r] = pv]
         /\ IF got.ok
            THEN /\ mapped' = [mapped EXCEPT ![r] = destroy(vm[r], got.mapped)]
                 /\ vm' = [vm EXCEPT ![r] = [addr |-> addr, size_ |-> alloc_size[r]]]
                 /\ failed_rank' = [failed_rank EXCEPT ![r] = -1]
            ELSE /\ mapped' = [mapped EXCEPT ![r] = M1]
                 /\ vm' = vm
                 /\ failed_rank' = [failed_rank EXCEPT ![r] = r]
  /\ pc' = [pc EXCEPT ![r] = "reduce"]
  /\ UNCHANGED <<size, n_trial, leader_rank, alloc_size, bcast, rounds>>
  /\ UNCHANGED <<mapperVars, laterVars>>

\* mpi_allreduce_value(failed_rank, MPI_MAX) completes on every rank; each rank
\* then returns the shrunk vm (its prev_vms are destroyed), or defers its vm,
\* takes the new leader and doubles alloc_size.
AllReduce ==
  /\ \A r \in Ranks : pc[r] = "reduce"
  /\ LET failed == {r \in Ranks : failed_rank[r] # -1}
         done   == [r \in Ranks |-> shrink(vm[r], size, destroy_all(prev_vms[r], mapped[r]))]
     IN  /\ rounds' = Append(rounds, [leader     |-> leader_rank[0],
                                      vm_addr    |-> bcast.vm_addr,
                                      alloc_size |-> alloc_size[0],
                                      failed     |-> failed])
         /\ IF failed = {}
            THEN /\ vm' = [r \in Ranks |-> done[r].vm]
                 /\ mapped' = [r \in Ranks |-> done[r].mapped]
                 /\ prev_vms' = [r \in Ranks |-> <<>>]
                 /\ pc' = [r \in Ranks |-> "returned"]
                 /\ UNCHANGED <<n_trial, leader_rank, alloc_size>>
            ELSE /\ prev_vms' = [r \in Ranks |->
                                   IF failed_rank[r] = -1
                                   THEN Append(prev_vms[r], vm[r])
                                   ELSE prev_vms[r]]
                 /\ vm' = [r \in Ranks |->
                             IF failed_rank[r] = -1
                             THEN [vm[r] EXCEPT !.addr = 0]
                             ELSE vm[r]]
                 /\ leader_rank' = [r \in Ranks |-> next_leader(failed)]
                 /\ alloc_size' = [r \in Ranks |->
                                     Min(alloc_size_max(size), 2 * alloc_size[r])]
                 /\ n_trial' = [r \in Ranks |-> n_trial[r] + 1]
                 /\ pc' = [r \in Ranks |-> "loop"]
                 /\ UNCHANGED mapped
  /\ UNCHANGED <<size, vm_addr, failed_rank, bcast>>
  /\ UNCHANGED <<mapperVars, laterVars>>

\* The loop ends without success:
\* die("Reservation of virtual memory address failed ...").
Die(r) ==
  /\ pc[r] = "loop"
  /\ ~loop_cond(n_trial[r])
  /\ pc' = [pc EXCEPT ![r] = "died"]
  /\ UNCHANGED <<size, mapped, n_trial, leader_rank, alloc_size, vm_addr, vm,
                 prev_vms, failed_rank, bcast, rounds>>
  /\ UNCHANGED <<mapperVars, laterVars>>

VmNext ==
  \/ \E r \in Ranks : LeaderReserve(r)
  \/ \E r \in Ranks : FollowerMap(r)
  \/ AllReduce
  \/ \E r \in Ranks : Die(r)

\* Every rank runs its part of the call to the end: a step that can be taken is taken.
VmSpec == VmInit /\ [][VmNext]_vars /\ WF_vars(VmNext)

(***************************************************************************)
(* Properties of mem_mapper                                                *)
(***************************************************************************)

CeilDiv(a, b) == -((-a) \div b)

Offsets(m) == 0..(effective_size(m) - 1)

\* The distinct segments get_segment returns over all offsets of the mapper.
Segments(m) ==
  {[owner    |-> get_segment(m, o).owner,
    offset_b |-> get_segment(m, o).offset_b,
    offset_e |-> get_segment(m, o).offset_e] : o \in Offsets(m)}

\* The number of bytes of [0, effective_size) whose get_segment owner is r.
OwnedBytes(m, r) == Cardinality({o \in Offsets(m) : get_segment(m, o).owner = r})

AsBlock(m) == [m EXCEPT !.policy = "block"]

\* C1: for each policy, every size, every rank count and every offset below
\* effective_size(), get_segment(offset) returns a segment with
\* offset_b <= offset < offset_e whose length is a multiple of BlockSize, and
\* none of its internal range checks fails.
C1_SegmentContainsOffset ==
  mcall.op = "get_segment" =>
    /\ mcall.ret.checks
    /\ mcall.ret.offset_b <= mcall.offset
    /\ mcall.offset < mcall.ret.offset_e
    /\ (mcall.ret.offset_e - mcall.ret.offset_b) % BlockSize = 0

C1_Witness ==
  /\ mcall.op = "get_segment"
  /\ mapper.policy = "block_adws"
  /\ n_blk(mapper) % mapper.n_inter_ranks_ # 0
  /\ mcall.ret.offset_b > 0
  /\ mcall.offset > mcall.ret.offset_b
  /\ mcall.ret.checks

\* C2: the distinct segments returned over all offsets in [0, effective_size())
\* are pairwise disjoint and their union is exactly [0, effective_size()); under
\* block and block_adws every rank owns at most one segment; under cyclic
\* consecutive segments go to ranks 0, 1, ..., R-1 in round-robin order.
C2_SegmentsPartition ==
  LET S == Segments(mapper)
      E == effective_size(mapper)
  IN  /\ \A s, t \in S : s # t => (s.offset_e <= t.offset_b \/ t.offset_e <= s.offset_b)
      /\ \A s \in S : 0 <= s.offset_b /\ s.offset_b < s.offset_e /\ s.offset_e <= E
      /\ \A o \in Offsets(mapper) : \E s \in S : s.offset_b <= o /\ o < s.offset_e
      /\ mapper.policy \in {"block", "block_adws"} =>
           \A s, t \in S : s.owner = t.owner => s = t
      /\ mapper.policy = "cyclic" =>
           /\ \A s \in S : s.offset_b = 0 => s.owner = 0
           /\ \A s, t \in S : s.offset_e = t.offset_b =>
                t.owner = (s.owner + 1) % mapper.n_inter_ranks_

C2_Witness ==
  /\ mcall.op = "get_segment"
  /\ mapper.policy = "cyclic"
  /\ mapper.n_inter_ranks_ >= 3
  /\ mapper.seg_size_ > BlockSize
  /\ Cardinality(Segments(mapper)) > mapper.n_inter_ranks_
  /\ mcall.ret.offset_b >= mapper.n_inter_ranks_ * mapper.seg_size_

\* C3: block policy with N = ceil(size/B) blocks and R ranks: get_segment(o)
\* returns owner = floor((o/B)*R/N), the range
\* [ceil(owner*N/R)*B, ceil((owner+1)*N/R)*B) and pm_offset = 0; size 14B on 4
\* ranks gives the shares [0,4B), [4B,7B), [7B,11B), [11B,14B).
C3_BlockSegment ==
  (mcall.op = "get_segment" /\ mapper.policy = "block") =>
    LET N     == CeilDiv(mapper.size_, BlockSize)
        R     == mapper.n_inter_ranks_
        owner == ((mcall.offset \div BlockSize) * R) \div N
    IN  /\ mcall.ret.owner = owner
        /\ mcall.ret.offset_b = CeilDiv(owner * N, R) * BlockSize
        /\ mcall.ret.offset_e = CeilDiv((owner + 1) * N, R) * BlockSize
        /\ mcall.ret.pm_offset = 0
        /\ (N = 14 /\ R = 4) =>
             <<mcall.ret.owner, mcall.ret.offset_b, mcall.ret.offset_e>> \in
               {<<0, 0, 4 * BlockSize>>, <<1, 4 * BlockSize, 7 * BlockSize>>,
                <<2, 7 * BlockSize, 11 * BlockSize>>,
                <<3, 11 * BlockSize, 14 * BlockSize>>}

C3_Witness ==
  /\ mcall.op = "get_segment"
  /\ mapper.policy = "block"
  /\ mapper.size_ = 14 * BlockSize
  /\ mapper.n_inter_ranks_ = 4
  /\ mcall.offset = 5 * BlockSize
  /\ mcall.ret.owner = 1
  /\ mcall.ret.offset_b = 4 * BlockSize
  /\ mcall.ret.offset_e = 7 * BlockSize

\* C4: cyclic policy with segment size S and R ranks: with g = floor(o/S),
\* get_segment(o) returns owner = g mod R, the range [g*S, (g+1)*S) and
\* pm_offset = floor(g/R)*S.
C4_CyclicSegment ==
  (mcall.op = "get_segment" /\ mapper.policy = "cyclic") =>
    LET S == mapper.seg_size_
        R == mapper.n_inter_ranks_
        g == mcall.offset \div S
    IN  /\ S >= BlockSize /\ S % BlockSize = 0
        /\ mcall.ret.owner = g % R
        /\ mcall.ret.offset_b = g * S
        /\ mcall.ret.offset_e = g * S + S
        /\ mcall.ret.pm_offset = (g \div R) * S

C4_Witness ==
  /\ mcall.op = "get_segment"
  /\ mapper.policy = "cyclic"
  /\ mapper.seg_size_ = 2 * BlockSize
  /\ mapper.n_inter_ranks_ = 4
  /\ mcall.offset = 5 * mapper.seg_size_ + 2
  /\ mcall.ret.owner = 1
  /\ mcall.ret.offset_b = 5 * mapper.seg_size_
  /\ mcall.ret.pm_offset = mapper.seg_size_

\* C5: local_size(r) equals the number of bytes of [0, effective_size()) whose
\* get_segment owner is r, except that a rank owning no block (block and
\* block_adws with fewer blocks than ranks) gets exactly one block; hence
\* local_size(r) >= BlockSize and is a multiple of BlockSize.
C5_LocalSize ==
  mcall.op = "local_size" =>
    LET owned == OwnedBytes(mapper, mcall.inter_rank)
    IN  /\ owned > 0 => mcall.ret = owned
        /\ owned = 0 =>
             /\ mcall.ret = BlockSize
             /\ mapper.policy \in {"block", "block_adws"}
             /\ n_blk(mapper) < mapper.n_inter_ranks_
        /\ mcall.ret >= BlockSize
        /\ mcall.ret % BlockSize = 0

C5_Witness ==
  /\ mcall.op = "local_size"
  /\ mapper.policy = "block"
  /\ n_blk(mapper) < mapper.n_inter_ranks_
  /\ OwnedBytes(mapper, mcall.inter_rank) = 0
  /\ mcall.ret = BlockSize

\* C6 (as stated): block_adws::get_segment(o) returns the same range and
\* pm_offset as block::get_segment(o), and owner = R - 1 - (block's owner).
C6_ReflectedOwnerSameRange ==
  (mcall.op = "get_segment" /\ mapper.policy = "block_adws") =>
    LET b == block_get_segment(AsBlock(mapper), mcall.offset)
    IN  /\ mcall.ret.offset_b = b.offset_b
        /\ mcall.ret.offset_e = b.offset_e
        /\ mcall.ret.pm_offset = b.pm_offset
        /\ mcall.ret.owner = mapper.n_inter_ranks_ - 1 - b.owner

\* C6 (amended): block_adws is the block policy reflected in the owner index and
\* in the block order: with E = effective_size(), block_adws::get_segment(o)
\* returns pm_offset 0, the owner R - 1 - seg_id where seg_id is the index of the
\* range [floor(seg_id*N/R)*B, floor((seg_id+1)*N/R)*B) holding o; this is the
\* owner block::get_segment(E-1-o) returns and that segment's range mirrored,
\* [E - offset_e, E - offset_b). When R divides N it is also the range of
\* block::get_segment(o) with owner R - 1 - (block's owner).
C6_MirroredBlock ==
  (mcall.op = "get_segment" /\ mapper.policy = "block_adws") =>
    LET E == effective_size(mapper)
        N == n_blk(mapper)
        R == mapper.n_inter_ranks_
        s == R - 1 - mcall.ret.owner
        b == block_get_segment(AsBlock(mapper), E - 1 - mcall.offset)
    IN  /\ mcall.ret.pm_offset = 0
        /\ mcall.ret.offset_b = ((s * N) \div R) * BlockSize
        /\ mcall.ret.offset_e = (((s + 1) * N) \div R) * BlockSize
        /\ mcall.ret.owner = b.owner
        /\ mcall.ret.offset_b = E - b.offset_e
        /\ mcall.ret.offset_e = E - b.offset_b
        /\ N % R = 0 => C6_ReflectedOwnerSameRange

C6_Witness ==
  /\ mcall.op = "get_segment"
  /\ mapper.policy = "block_adws"
  /\ mapper.size_ = 14 * BlockSize
  /\ mapper.n_inter_ranks_ = 4
  /\ mcall.offset = 3 * BlockSize
  /\ mcall.ret.owner = 2
  /\ mcall.ret.offset_b = 3 * BlockSize
  /\ mcall.ret.offset_e = 7 * BlockSize
  /\ block_get_segment(AsBlock(mapper), mcall.offset).owner = 0

\* The offsets of [0, effective_size) that get_segment gives to rank r.
Share(m, r) == {o \in Offsets(m) : get_segment(m, o).owner = r}

\* A set of offsets without a gap.
Contiguous(S) == \A a \in S, b \in S : \A c \in a..b : c \in S

SharesContiguous(m) == \A r \in 0..(m.n_inter_ranks_ - 1) : Contiguous(Share(m, r))

\* C25 (as stated): should_map_all_home() is true if and only if the share of
\* every rank is contiguous in the global offset space, for every size and every
\* rank count.
C25_TrueIffContiguous ==
  mcall.op = "should_map_all_home" => (mcall.ret <=> SharesContiguous(mapper))

\* C25 (amended): should_map_all_home() is true for block and block_adws and
\* false for cyclic; when it is true the share of every rank is contiguous; the
\* shares of cyclic have gaps exactly when there are two ranks or more and a
\* rank holds more than one segment, and are contiguous otherwise although
\* should_map_all_home() is false.
C25_TrueOnlyIfContiguous ==
  mcall.op = "should_map_all_home" =>
    /\ mcall.ret <=> mapper.policy \in {"block", "block_adws"}
    /\ mcall.ret => SharesContiguous(mapper)
    /\ mapper.policy = "cyclic" =>
         (SharesContiguous(mapper) <=>
            (mapper.n_inter_ranks_ = 1 \/ cyclic_local_size_impl(mapper) = mapper.seg_size_))

\* should_map_all_home() was false on a cyclic mapper whose shares have gaps.
C25_Witness ==
  /\ mcall.op = "should_map_all_home"
  /\ mapper.policy = "cyclic"
  /\ mapper.n_inter_ranks_ = 2
  /\ mapper.size_ = 4 * mapper.seg_size_
  /\ ~mcall.ret
  /\ ~SharesContiguous(mapper)

\* C26: for block and block_adws, get_numa_segment(r, pm_offset) with
\* pm_offset < local_size(r) passes its checks and returns a block-aligned range
\* within [0, local_size(r)) that holds pm_offset and an owner in
\* [0, n_intra_ranks); it is what get_segment of the same policy returns for
\* local_size(r) bytes over n_intra_ranks ranks; the ranges of all pm_offsets
\* cover [0, local_size(r)) and two of them are equal or disjoint.
C26_NumaSegment ==
  (mcall.op = "get_numa_segment" /\ mapper.policy \in {"block", "block_adws"}) =>
    LET r   == mcall.inter_rank
        L   == local_size(mapper, r)
        ret == mcall.ret
        sub == [mapper EXCEPT !.size_ = L, !.n_inter_ranks_ = mapper.n_intra_ranks_]
        g   == get_segment(sub, mcall.pm_offset)
    IN  /\ ret.checks
        /\ ret.pm_offset_b % BlockSize = 0
        /\ ret.pm_offset_e % BlockSize = 0
        /\ ret.pm_offset_b <= mcall.pm_offset
        /\ mcall.pm_offset < ret.pm_offset_e
        /\ ret.pm_offset_e <= L
        /\ ret.owner \in 0..(mapper.n_intra_ranks_ - 1)
        /\ g.checks
        /\ ret.owner = g.owner
        /\ ret.pm_offset_b = g.offset_b
        /\ ret.pm_offset_e = g.offset_e
        /\ \A p2 \in 0..(L - 1) :
             LET s2 == get_numa_segment(mapper, r, p2)
             IN  /\ s2.checks
                 /\ s2.pm_offset_b <= p2
                 /\ p2 < s2.pm_offset_e
                 /\ \/ s2 = ret
                    \/ s2.pm_offset_e <= ret.pm_offset_b
                    \/ ret.pm_offset_e <= s2.pm_offset_b
                 /\ s2.owner = ret.owner <=> s2 = ret

\* get_numa_segment was called on a rank with two local blocks and three
\* intra-node ranks.
C26_Witness ==
  /\ mcall.op = "get_numa_segment"
  /\ mapper.policy = "block"
  /\ mapper.n_intra_ranks_ = 3
  /\ local_size(mapper, mcall.inter_rank) = 2 * BlockSize
  /\ mcall.pm_offset = BlockSize
  /\ mcall.ret.owner = 1
  /\ mcall.ret.pm_offset_b = BlockSize
  /\ mcall.ret.pm_offset_e = 2 * BlockSize

(***************************************************************************)
(* Properties of reserve_same_vm_coll                                      *)
(***************************************************************************)

Returned == \A r \in Ranks : pc[r] = "returned"

Terminated == \A r \in Ranks : pc[r] \in {"returned", "died"}

\* The rounds that ended with a failed rank (the retried attempts).
FailedRounds == {k \in 1..Len(rounds) : rounds[k].failed # {}}

\* C7: when reserve_same_vm_coll(size) returns, on every rank the returned
\* virtual_mem has the same address and size() = size (the requested size, not
\* the attempted size), whatever the retry rounds and the ranks that collided.
C7_SameAddressRequestedSize ==
  \A r \in Ranks : pc[r] = "returned" =>
    /\ vm[r].addr # 0
    /\ vm[r].size_ = size
    /\ PagesOf(vm[r].addr, size) \subseteq mapped[r]
    /\ \A q \in Ranks : pc[q] = "returned" /\ vm[q].addr = vm[r].addr

C7_Witness ==
  /\ Returned
  /\ Len(rounds) = 3
  /\ rounds[1].failed # rounds[2].failed
  /\ rounds[3].alloc_size > round_up_pow2(size, PageSize)
  /\ \A r \in Ranks : vm[r].addr = rounds[3].vm_addr /\ vm[r].size_ = size

\* C8: if in a round at least one follower's mapping at the broadcast address
\* collides, no rank returns in that round, the leader of the next round is the
\* highest-ranked follower that failed, and that leader reserves a fresh address;
\* with 4 ranks, when only rank 2 collides at X, rank 2 leads the retry and, the
\* retry succeeding, all four ranks hold the same range Y..Y+size.
C8_FailedRoundRetries ==
  /\ \A k \in FailedRounds :
       /\ rounds[k].leader \notin rounds[k].failed
       /\ k = Len(rounds) =>
            \A r \in Ranks :
              /\ pc[r] # "returned"
              /\ n_trial[r] = k
              /\ leader_rank[r] \in rounds[k].failed
              /\ \A q \in rounds[k].failed : q <= leader_rank[r]
              /\ (pc[r] = "reduce" /\ r = leader_rank[r]) =>
                   /\ vm[r].addr = bcast.vm_addr
                   /\ vm[r].addr # rounds[k].vm_addr
                   /\ PagesOf(vm[r].addr, alloc_size[r]) \subseteq mapped[r]
       /\ k < Len(rounds) =>
            /\ rounds[k + 1].leader \in rounds[k].failed
            /\ \A q \in rounds[k].failed : q <= rounds[k + 1].leader
            /\ rounds[k + 1].vm_addr # rounds[k].vm_addr
  /\ \A r \in Ranks : pc[r] = "returned" => Len(rounds) \notin FailedRounds
  /\ (NRanks = 4 /\ Len(rounds) = 2 /\ rounds[1].failed = {2} /\ rounds[2].failed = {}) =>
       /\ rounds[2].leader = 2
       /\ \A r \in Ranks :
            /\ pc[r] = "returned"
            /\ vm[r] = [addr |-> rounds[2].vm_addr, size_ |-> size]
            /\ PagesOf(rounds[2].vm_addr, size) \subseteq mapped[r]

C8_Witness ==
  /\ NRanks = 4
  /\ Len(rounds) = 2
  /\ rounds[1].leader = 0
  /\ rounds[1].failed = {2}
  /\ rounds[2].leader = 2
  /\ rounds[2].failed = {}
  /\ rounds[2].vm_addr # rounds[1].vm_addr
  /\ \A r \in Ranks : pc[r] = "returned" /\ vm[r].addr = rounds[2].vm_addr

\* The addresses broadcast so far in this call, in round order.
Broadcasts ==
  [k \in 1..(Len(rounds) + (IF bcast.n_trial = Len(rounds) THEN 1 ELSE 0)) |->
     IF k <= Len(rounds) THEN rounds[k].vm_addr ELSE bcast.vm_addr]

\* C9 (as stated): the address broadcast by the leader of a retry round is never
\* an address that was already broadcast in an earlier round of the same call.
C9_NeverRebroadcast ==
  \A i, j \in DOMAIN Broadcasts : i < j => Broadcasts[i] # Broadcasts[j]

\* The failed rounds after which rank r deferred its reservation, in order.
KeptRounds(r) == {k \in FailedRounds : r \notin rounds[k].failed}

KeptRound(r, i) ==
  CHOOSE k \in KeptRounds(r) : Cardinality({j \in KeptRounds(r) : j <= k}) = i

\* Rank r, as a follower of a round after round k, met a broadcast range that
\* overlaps the range reserved in round k.
OverlappedLater(r, k) ==
  \/ \E j \in (k + 1)..Len(rounds) :
       /\ rounds[j].leader # r
       /\ rounds[j].vm_addr < rounds[k].vm_addr + rounds[k].alloc_size
       /\ rounds[k].vm_addr < rounds[j].vm_addr + rounds[j].alloc_size
  \/ /\ pc[r] = "reduce" /\ r # leader_rank[r]
     /\ vm_addr[r] < rounds[k].vm_addr + rounds[k].alloc_size
     /\ rounds[k].vm_addr < vm_addr[r] + alloc_size[r]

\* C9 (amended): a reservation obtained in a failed round is kept mapped until
\* the call returns unless its range overlaps the range broadcast in a later
\* round in which the rank is a follower, which unmaps it; the address
\* broadcast in a retry round is never the address broadcast in the round
\* immediately before it.
C9_DeferredUnlessOverlapped ==
  /\ \A r \in Ranks : pc[r] \in {"loop", "reduce"} =>
       /\ Len(prev_vms[r]) = Cardinality(KeptRounds(r))
       /\ \A i \in DOMAIN prev_vms[r] :
            LET k == KeptRound(r, i)
            IN  \/ /\ prev_vms[r][i] = [addr  |-> rounds[k].vm_addr,
                                        size_ |-> rounds[k].alloc_size]
                   /\ PagesOf(rounds[k].vm_addr, rounds[k].alloc_size) \subseteq mapped[r]
                   /\ ~OverlappedLater(r, k)
                \/ /\ prev_vms[r][i].addr = 0
                   /\ OverlappedLater(r, k)
  /\ \A i \in DOMAIN Broadcasts :
       i + 1 \in DOMAIN Broadcasts => Broadcasts[i] # Broadcasts[i + 1]

C9_Witness ==
  /\ Len(rounds) = 2
  /\ bcast.n_trial = 2
  /\ bcast.vm_addr = rounds[1].vm_addr
  /\ \E r \in Ranks : Len(prev_vms[r]) = 2 /\ prev_vms[r][1].addr = 0
                      /\ prev_vms[r][2].addr # 0

\* C10: the call makes at most max_trial + 1 attempts, returns in the first
\* attempt in which no rank fails, calls die() only after every one of the
\* max_trial + 1 attempts had a failed rank, and always ends.
C10_Safety ==
  /\ Len(rounds) <= MaxTrial + 1
  /\ \A k \in 1..Len(rounds) : k < Len(rounds) => k \in FailedRounds
  /\ \A r \in Ranks :
       /\ n_trial[r] <= MaxTrial + 1
       /\ n_trial[r] = Cardinality(FailedRounds)
       /\ pc[r] = "returned" <=> (Len(rounds) > 0 /\ Len(rounds) \notin FailedRounds)
       /\ pc[r] = "died" =>
            /\ Len(rounds) = MaxTrial + 1
            /\ FailedRounds = 1..(MaxTrial + 1)

\* A measure of the progress of the call: it grows with every step of every rank
\* and is bounded, so the call cannot go on forever.
RECURSIVE ProgressUpTo(_)
ProgressUpTo(r) ==
  IF r < 0 THEN 0
  ELSE ProgressUpTo(r - 1) + 3 * n_trial[r]
       + (CASE pc[r] = "loop" -> 0 [] pc[r] = "reduce" -> 1 [] OTHER -> 2)

Progress == ProgressUpTo(NRanks - 1)

AddressSpaceSuffices ==
  \A r \in Ranks : (pc[r] = "loop" /\ loop_cond(n_trial[r]) /\ r = leader_rank[r]) =>
     MmapPlacements(mapped[r], alloc_size[r] + Alignment) # {}

Pow2(k) == 2 ^ k

\* size rounded up to the page size: the size attempted in round 0.
A0 == ((size + PageSize - 1) \div PageSize) * PageSize

\* The size attempted in round k according to the doubling rule with its cap.
AttemptedSize(k) ==
  LET cap     == IF A0 > MaxAllocPages * PageSize THEN A0 ELSE MaxAllocPages * PageSize
      doubled == Pow2(k) * A0
  IN  IF cap < doubled THEN cap ELSE doubled

\* C11: in round k (k = 0, 1, ...) every rank attempts
\* min(max(A0, cap), 2^k * A0) bytes, A0 being size rounded up to the page size;
\* the attempted size never decreases and is never smaller than the requested
\* size, so the precondition of the final shrink(size), addr_ set and
\* to_size <= size_, holds on every rank.
C11_AllocSizeDoubling ==
  /\ \A k \in 1..Len(rounds) :
       /\ rounds[k].alloc_size = AttemptedSize(k - 1)
       /\ rounds[k].alloc_size >= size
       /\ k > 1 => rounds[k].alloc_size >= rounds[k - 1].alloc_size
  /\ \A r \in Ranks :
       /\ alloc_size[r] = AttemptedSize(n_trial[r])
       /\ alloc_size[r] >= size
       /\ (pc[r] = "reduce" /\ failed_rank[r] = -1) =>
            /\ vm[r].addr # 0
            /\ vm[r].size_ = alloc_size[r]
            /\ size <= vm[r].size_

C11_Witness ==
  /\ Returned
  /\ Len(rounds) = 3
  /\ rounds[1].alloc_size = PageSize
  /\ rounds[2].alloc_size = 2 * PageSize
  /\ rounds[3].alloc_size = MaxAllocPages * PageSize
  /\ rounds[3].alloc_size < 4 * PageSize
  /\ \A r \in Ranks : vm[r].size_ = size

(***************************************************************************)
(* virtual_mem objects of one process                                      *)
(***************************************************************************)

\* Number of virtual_mem objects of the process.
NObjs == 3

\* The mappings of the process lie in pages 1..VmemPages.
VmemPages == 5

Objs == 1..NObjs

\* Sizes passed to the constructors: up to two pages, page multiples or not.
VmemSizes == 1..(2 * PageSize)

\* Page-aligned addresses passed to virtual_mem(addr, size).
VmemAddrs == {p * PageSize : p \in 1..VmemPages}

\* The placements the kernel may choose within pages 1..VmemPages.
VmemPlacements(M, len) ==
  {a \in MmapPlacements(M, len) : a + len <= (VmemPages + 1) * PageSize}

\* Variant of the move that leaves addr_ of the source as it is.
moved_from_keeps(v) == v

\* The source of a move afterwards: vm.addr_ = nullptr
moved_from(v) == [v EXCEPT !.addr = 0]

\* The pages munmap is called on by destroy()
destroy_pages(v) == IF v.addr # 0 THEN PagesOf(v.addr, v.size_) ELSE {}

\* Variant of the move assignment that does not destroy() the target first.
move_assign_nodestroy(dst, src, M) == [dst |-> src, mapped |-> M]

\* operator=(virtual_mem&&): destroy(), then take addr_ and size_ of the source
move_assign(dst, src, M) == [dst |-> src, mapped |-> destroy(dst, M)]

VmemNoOp == [op |-> [name |-> "none"], thrown |-> FALSE, freed |-> {}, twice |-> FALSE]

\* The record of an operation: what it was, whether it threw
\* mmap_noreplace_exception, the pages it unmapped, and whether this or an
\* earlier operation called munmap on a page that was not mapped.
VmemOp(op, thrown, freed, M) ==
  [op |-> op, thrown |-> thrown, freed |-> freed,
   twice |-> vlast.twice \/ ~(freed \subseteq M)]

VmemInit ==
  /\ objs = [i \in Objs |-> NullVm]
  /\ alive = {}
  /\ vmapped = {}
  /\ vlast = VmemNoOp
  /\ NotVmemIdle

\* virtual_mem(): addr_ = nullptr, size_ is not initialised.
DefaultCtor(i) ==
  /\ i \notin alive
  /\ \E garbage \in {0, 2 * PageSize} :
       objs' = [objs EXCEPT ![i] = [addr |-> 0, size_ |-> garbage]]
  /\ alive' = alive \cup {i}
  /\ vlast' = VmemOp([name |-> "default_ctor", dst |-> i], FALSE, {}, vmapped)
  /\ UNCHANGED vmapped
  /\ UNCHANGED notVmem

\* virtual_mem(size, alignment)
SizeCtor(i) ==
  /\ i \notin alive
  /\ \E sz \in VmemSizes : \E a \in VmemPlacements(vmapped, sz + Alignment) :
       LET got == mmap_no_physical_mem_null(vmapped, a, sz)
       IN  /\ objs' = [objs EXCEPT ![i] = [addr |-> got.addr, size_ |-> sz]]
           /\ vmapped' = got.mapped
  /\ alive' = alive \cup {i}
  /\ vlast' = VmemOp([name |-> "size_ctor", dst |-> i], FALSE, {}, vmapped)
  /\ UNCHANGED notVmem

\* virtual_mem(addr, size, alignment): the object is constructed unless
\* mmap_no_physical_mem throws mmap_noreplace_exception.
AddrCtor(i) ==
  /\ i \notin alive
  /\ \E addr \in VmemAddrs : \E sz \in VmemSizes :
       LET got == mmap_no_physical_mem_fixed(vmapped, addr, sz)
       IN  /\ PagesOf(addr, sz) \subseteq 1..VmemPages
           /\ vmapped' = got.mapped
           /\ IF got.ok
              THEN /\ objs' = [objs EXCEPT ![i] = [addr |-> addr, size_ |-> sz]]
                   /\ alive' = alive \cup {i}
              ELSE UNCHANGED <<objs, alive>>
           /\ vlast' = VmemOp([name |-> "addr_ctor", dst |-> i, addr |-> addr, size |-> sz],
                              ~got.ok, {}, vmapped)
  /\ UNCHANGED notVmem

\* virtual_mem(virtual_mem&& vm): a new object i is constructed from object j.
MoveCtor(i, j) ==
  /\ i \notin alive
  /\ j \in alive
  /\ objs' = [objs EXCEPT ![i] = objs[j], ![j] = moved_from(objs[j])]
  /\ alive' = alive \cup {i}
  /\ vlast' = VmemOp([name |-> "move_ctor", dst |-> i, src |-> j], FALSE, {}, vmapped)
  /\ UNCHANGED vmapped
  /\ UNCHANGED notVmem

\* operator=(virtual_mem&& vm): object j is move-assigned to object i (i = j included).
MoveAssign(i, j) ==
  /\ i \in alive
  /\ j \in alive
  /\ LET got == move_assign(objs[i], objs[j], vmapped)
         o1  == [objs EXCEPT ![i] = got.dst]
     IN  /\ objs' = [o1 EXCEPT ![j] = moved_from(o1[j])]
         /\ vmapped' = got.mapped
         /\ vlast' = VmemOp([name |-> "move_assign", dst |-> i, src |-> j], FALSE,
                            destroy_pages(objs[i]), vmapped)
  /\ UNCHANGED alive
  /\ UNCHANGED notVmem

\* ~virtual_mem()
Dtor(i) ==
  /\ i \in alive
  /\ vmapped' = destroy(objs[i], vmapped)
  /\ objs' = [objs EXCEPT ![i] = NullVm]
  /\ alive' = alive \ {i}
  /\ vlast' = VmemOp([name |-> "dtor", dst |-> i, addr |-> objs[i].addr,
                      size |-> objs[i].size_],
                     FALSE, destroy_pages(objs[i]), vmapped)
  /\ UNCHANGED notVmem

\* shrink(to_size) within its checks addr_ != nullptr and to_size <= size_,
\* for the sizes a constructor accepts (to_size > 0).
Shrink(i) ==
  /\ i \in alive
  /\ objs[i].addr # 0
  /\ \E to_size \in 1..objs[i].size_ :
       LET got == shrink(objs[i], to_size, vmapped)
       IN  /\ objs' = [objs EXCEPT ![i] = got.vm]
           /\ vmapped' = got.mapped
           /\ vlast' = VmemOp([name |-> "shrink", dst |-> i], FALSE,
                              PagesOf(objs[i].addr + round_up_pow2(to_size, PageSize),
                                      round_up_pow2(objs[i].size_, PageSize)
                                        - round_up_pow2(to_size, PageSize)),
                              vmapped)
  /\ UNCHANGED alive
  /\ UNCHANGED notVmem

VmemNext ==
  \/ \E i \in Objs : DefaultCtor(i)
  \/ \E i \in Objs : SizeCtor(i)
  \/ \E i \in Objs : AddrCtor(i)
  \/ \E i, j \in Objs : MoveCtor(i, j)
  \/ \E i, j \in Objs : MoveAssign(i, j)
  \/ \E i \in Objs : Dtor(i)
  \/ \E i \in Objs : Shrink(i)

VmemSpec == VmemInit /\ [][VmemNext]_vars

(***************************************************************************)
(* checkout_span, make_checkouts and checkout_global_iterators             *)
(***************************************************************************)

\* Number of checkout_span objects.
NSpans == 2

\* Global pointers 1..MaxGPtr; 0 is the null pointer.
MaxGPtr == 2

\* Lengths of the checked-out ranges.
MaxSpanLen == 2

Spans == 1..NSpans

GPtrs == 1..MaxGPtr

SpanModes == {"read", "read_write"}

\* What ori keeps per checkout: the pointer it returned, the length and the mode.
CheckoutKeys == [ptr : GPtrs, n : 0..MaxSpanLen, mode : SpanModes]

\* checkout_span(): ptr_ = nullptr, n_ = 0
NullSpan(mode) == [ptr_ |-> 0, n_ |-> 0, mode |-> mode]

\* A slot that holds no object.
NoSpan == NullSpan("none")

\* The pointer ori::checkout and ori::checkout_nb return for a global pointer:
\* the address of the range in the local view.
ori_checkout(gptr) == gptr

OriCall(call, ptr, n, mode) == [call |-> call, ptr |-> ptr, n |-> n, mode |-> mode]

OriCheckoutComplete == [call |-> "checkout_complete"]

\* Variant of destroy() that checks in whether or not ptr_ is set.
span_destroy_always(cs) == <<OriCall("checkin", cs.ptr_, cs.n_, cs.mode)>>

\* checkout_span::destroy: the ori calls it makes
span_destroy(cs) ==
  IF cs.ptr_ # 0 THEN <<OriCall("checkin", cs.ptr_, cs.n_, cs.mode)>> ELSE <<>>

\* checkout_span::checkin: the span afterwards and the ori calls it makes
span_checkin(cs) ==
  IF cs.ptr_ # 0
  THEN [cs |-> NullSpan(cs.mode), calls |-> <<OriCall("checkin", cs.ptr_, cs.n_, cs.mode)>>]
  ELSE [cs |-> cs, calls |-> <<>>]

\* checkout_span(gptr, n, Mode)
span_ctor(gptr, n, mode) ==
  IF gptr # 0 /\ n > 0
  THEN [cs |-> [ptr_ |-> ori_checkout(gptr), n_ |-> n, mode |-> mode],
        calls |-> <<OriCall("checkout", ori_checkout(gptr), n, mode)>>]
  ELSE [cs |-> [ptr_ |-> 0, n_ |-> n, mode |-> mode], calls |-> <<>>]

\* checkout_span::checkout (call = "checkout") and checkout_nb (call = "checkout_nb")
span_checkout(cs, call, gptr, n) ==
  [cs    |-> [ptr_ |-> ori_checkout(gptr), n_ |-> n, mode |-> cs.mode],
   calls |-> span_checkin(cs).calls \o <<OriCall(call, ori_checkout(gptr), n, cs.mode)>>]

\* The source of a move afterwards: cs.ptr_ = nullptr; cs.n_ = 0
span_moved_from(cs) == NullSpan(cs.mode)

\* ori after a sequence of calls: the checkouts not yet checked in, and whether a
\* checkin named a (pointer, length, mode) that is not checked out.
RECURSIVE ori_apply(_, _)
ori_apply(st, calls) ==
  IF calls = <<>> THEN st
  ELSE LET c == Head(calls)
           k == [ptr |-> c.ptr, n |-> c.n, mode |-> c.mode]
       IN  ori_apply(
             CASE c.call \in {"checkout", "checkout_nb"} ->
                    [st EXCEPT !.out[k] = @ + 1]
               [] c.call = "checkin" ->
                    IF k \in DOMAIN st.out /\ st.out[k] > 0 THEN [st EXCEPT !.out[k] = @ - 1]
                    ELSE [st EXCEPT !.bad = TRUE]
               [] OTHER -> st,
             Tail(calls))

\* A checkout request of make_checkouts: <global_ptr>, <num_elems>, <checkout_mode>
\* (a global_span request is its data() and size()).
Requests == [gptr : GPtrs, n : 1..MaxSpanLen, mode : SpanModes]

\* Variant of make_checkouts_aux that checks out the rest before the first request.
RECURSIVE make_checkouts_aux_rest_first(_)
make_checkouts_aux_rest_first(reqs) ==
  IF reqs = <<>> THEN [css |-> <<>>, calls |-> <<>>]
  ELSE LET rest == make_checkouts_aux_rest_first(Tail(reqs))
           got  == span_checkout(NullSpan(Head(reqs).mode), "checkout_nb",
                                 Head(reqs).gptr, Head(reqs).n)
       IN  [css |-> <<got.cs>> \o rest.css, calls |-> rest.calls \o got.calls]

\* internal::make_checkouts_aux: the tuple of spans and the ori calls made
RECURSIVE make_checkouts_aux(_)
make_checkouts_aux(reqs) ==
  IF reqs = <<>> THEN [css |-> <<>>, calls |-> <<>>]
  ELSE LET got  == span_checkout(NullSpan(Head(reqs).mode), "checkout_nb",
                                 Head(reqs).gptr, Head(reqs).n)
           rest == make_checkouts_aux(Tail(reqs))
       IN  [css |-> <<got.cs>> \o rest.css, calls |-> got.calls \o rest.calls]

\* make_checkouts
make_checkouts(reqs) ==
  LET css == make_checkouts_aux(reqs)
  IN  [css |-> css.css, calls |-> Append(css.calls, OriCheckoutComplete)]

\* An iterator passed to checkout_global_iterators: a global iterator with its
\* mode, or any other iterator.
Iterators == [global : {TRUE}, ptr : GPtrs, mode : SpanModes]
             \cup [global : {FALSE}, ptr : {0}, mode : {"none"}]

\* internal::checkout_global_iterators_aux: it.checkout_nb(n) for every global
\* iterator; the spans, the iterators to use, and the ori calls made
RECURSIVE checkout_global_iterators_aux(_, _)
checkout_global_iterators_aux(n, its) ==
  IF its = <<>> THEN [css |-> <<>>, its |-> <<>>, calls |-> <<>>]
  ELSE LET it == Head(its)
       IN  IF it.global
           THEN LET got  == span_checkout(NullSpan(it.mode), "checkout_nb", it.ptr, n)
                    rest == checkout_global_iterators_aux(n, Tail(its))
                IN  [css   |-> <<got.cs>> \o rest.css,
                     its   |-> <<got.cs.ptr_>> \o rest.its,
                     calls |-> got.calls \o rest.calls]
           ELSE LET rest == checkout_global_iterators_aux(n, Tail(its))
                IN  [css |-> rest.css, its |-> <<it.ptr>> \o rest.its, calls |-> rest.calls]

\* internal::checkout_global_iterators
checkout_global_iterators(n, its) ==
  LET ret == checkout_global_iterators_aux(n, its)
  IN  [css |-> ret.css, its |-> ret.its, calls |-> Append(ret.calls, OriCheckoutComplete)]

\* The k lowest slots that hold no object, in order.
RECURSIVE FreeSlots(_, _)
FreeSlots(k, from) ==
  IF k = 0 \/ from > NSpans THEN <<>>
  ELSE IF from \in span_alive THEN FreeSlots(k, from + 1)
       ELSE <<from>> \o FreeSlots(k - 1, from + 1)

\* The record of an operation: what it was and the ori calls it made, with the
\* state of ori after them.
SpanOp(op, calls) ==
  LET st == ori_apply([out |-> outstanding, bad |-> slast.bad], calls)
  IN  /\ outstanding' = st.out
      /\ slast' = [op |-> op, calls |-> calls, bad |-> st.bad]

SpanInit ==
  /\ spans = [i \in Spans |-> NoSpan]
  /\ span_alive = {}
  /\ outstanding = [k \in CheckoutKeys |-> 0]
  /\ slast = [op |-> [name |-> "none"], calls |-> <<>>, bad |-> FALSE]
  /\ NotSpanIdle

\* checkout_span<T, Mode>()
SpanDefaultCtor(i) ==
  /\ i \notin span_alive
  /\ \E mode \in SpanModes : spans' = [spans EXCEPT ![i] = NullSpan(mode)]
  /\ span_alive' = span_alive \cup {i}
  /\ SpanOp([name |-> "default_ctor", dst |-> i], <<>>)
  /\ UNCHANGED notSpan

\* checkout_span(gptr, n, Mode), within its check
\* (ptr_ && n_ > 0) || (!ptr_ && n == 0).
SpanCtor(i) ==
  /\ i \notin span_alive
  /\ \E gptr \in GPtrs \cup {0}, n \in 0..MaxSpanLen, mode \in SpanModes :
       LET got == span_ctor(gptr, n, mode)
       IN  /\ (got.cs.ptr_ # 0 /\ got.cs.n_ > 0) \/ (got.cs.ptr_ = 0 /\ n = 0)
           /\ spans' = [spans EXCEPT ![i] = got.cs]
           /\ SpanOp([name |-> "ctor", dst |-> i], got.calls)
  /\ span_alive' = span_alive \cup {i}
  /\ UNCHANGED notSpan

\* checkout_span(checkout_span&& cs): object i is constructed from object j.
SpanMoveCtor(i, j) ==
  /\ i \notin span_alive
  /\ j \in span_alive
  /\ spans' = [spans EXCEPT ![i] = spans[j], ![j] = span_moved_from(spans[j])]
  /\ span_alive' = span_alive \cup {i}
  /\ SpanOp([name |-> "move_ctor", dst |-> i, src |-> j], <<>>)
  /\ UNCHANGED notSpan

\* operator=(checkout_span&& cs) between objects of the same type (i = j included):
\* destroy(), take ptr_ and n_ of the source, reset the source.
SpanMoveAssign(i, j) ==
  /\ i \in span_alive
  /\ j \in span_alive
  /\ spans[i].mode = spans[j].mode
  /\ LET s1 == [spans EXCEPT ![i] = spans[j]]
     IN  spans' = [s1 EXCEPT ![j] = span_moved_from(s1[j])]
  /\ SpanOp([name |-> "move_assign", dst |-> i, src |-> j], span_destroy(spans[i]))
  /\ UNCHANGED span_alive
  /\ UNCHANGED notSpan

\* checkout(gptr, n, Mode) and checkout_nb(gptr, n, Mode) on object i, for a
\* non-null global pointer and n > 0.
SpanCheckout(i) ==
  /\ i \in span_alive
  /\ \E call \in {"checkout", "checkout_nb"}, gptr \in GPtrs, n \in 1..MaxSpanLen :
       LET got == span_checkout(spans[i], call, gptr, n)
       IN  /\ spans' = [spans EXCEPT ![i] = got.cs]
           /\ SpanOp([name |-> call, dst |-> i], got.calls)
  /\ UNCHANGED span_alive
  /\ UNCHANGED notSpan

\* checkin() on object i
SpanCheckin(i) ==
  /\ i \in span_alive
  /\ spans' = [spans EXCEPT ![i] = span_checkin(spans[i]).cs]
  /\ SpanOp([name |-> "checkin", dst |-> i], span_checkin(spans[i]).calls)
  /\ UNCHANGED span_alive
  /\ UNCHANGED notSpan

\* ~checkout_span()
SpanDtor(i) ==
  /\ i \in span_alive
  /\ spans' = [spans EXCEPT ![i] = NoSpan]
  /\ span_alive' = span_alive \ {i}
  /\ SpanOp([name |-> "dtor", dst |-> i], span_destroy(spans[i]))
  /\ UNCHANGED notSpan

\* make_checkouts(args...) with k requests; the spans of the returned tuple
\* become the objects of the k lowest free slots.
MakeCheckouts ==
  \E k \in 0..(NSpans - Cardinality(span_alive)) : \E reqs \in [1..k -> Requests] :
    LET got   == make_checkouts(reqs)
        slots == FreeSlots(k, 1)
    IN  /\ spans' = [i \in Spans |->
                       IF \E q \in 1..k : slots[q] = i
                       THEN got.css[CHOOSE q \in 1..k : slots[q] = i]
                       ELSE spans[i]]
        /\ span_alive' = span_alive \cup {slots[q] : q \in 1..k}
        /\ SpanOp([name |-> "make_checkouts", reqs |-> reqs, slots |-> slots], got.calls)
        /\ UNCHANGED notSpan

\* checkout_global_iterators(n, its...) with n > 0; the spans of the returned
\* tuple become the objects of the lowest free slots.
CheckoutGlobalIterators ==
  \E m \in 0..(NSpans - Cardinality(span_alive)) :
    \E its \in [1..m -> Iterators], n \in 1..MaxSpanLen :
      LET got   == checkout_global_iterators(n, its)
          k     == Len(got.css)
          slots == FreeSlots(k, 1)
      IN  /\ spans' = [i \in Spans |->
                         IF \E q \in 1..k : slots[q] = i
                         THEN got.css[CHOOSE q \in 1..k : slots[q] = i]
                         ELSE spans[i]]
          /\ span_alive' = span_alive \cup {slots[q] : q \in 1..k}
          /\ SpanOp([name |-> "checkout_global_iterators", n |-> n, its |-> its,
                     ret |-> got.its, slots |-> slots], got.calls)
          /\ UNCHANGED notSpan

SpanNext ==
  \/ \E i \in Spans : SpanDefaultCtor(i)
  \/ \E i \in Spans : SpanCtor(i)
  \/ \E i, j \in Spans : SpanMoveCtor(i, j)
  \/ \E i, j \in Spans : SpanMoveAssign(i, j)
  \/ \E i \in Spans : SpanCheckout(i)
  \/ \E i \in Spans : SpanCheckin(i)
  \/ \E i \in Spans : SpanDtor(i)
  \/ MakeCheckouts
  \/ CheckoutGlobalIterators

SpanSpec == SpanInit /\ [][SpanNext]_vars

(***************************************************************************)
(* reduce, transform_reduce and transform_inclusive_scan                   *)
(***************************************************************************)

\* Length of the input range.
MaxN == 5

\* policy.cutoff_count
MaxCutoff == 3

\* The elements of the input range.
Elems == {"a", "b"}

\* The reducer: an associative operator with an identity that is not
\* commutative (concatenation), so that the order of combination shows.
reducer_identity == <<>>

reducer_op(x, y) == x \o y

\* unary_transform_op: the element as a value of the accumulator type
unary_transform_op(r) == <<r>>

\* reducer.foldl(acc, x): acc = acc + x
foldl(acc, x) == reducer_op(acc, x)

\* reducer.foldr(acc_l, acc_r): acc_r = acc_l + acc_r
foldr(acc_l, acc_r) == reducer_op(acc_l, acc_r)

\* The output value of a position that was not written.
Unwritten == <<"unwritten">>

\* accumulate_op of transform_reduce (kind "reduce") and of
\* transform_inclusive_scan (kind "scan") on the element at index i (from 0);
\* st is the accumulator and the output range.
accumulate_op(kind, st, xs, i) ==
  LET acc == foldl(st.acc, unary_transform_op(xs[i + 1]))
  IN  IF kind = "scan"
      THEN [acc |-> acc, out |-> [st.out EXCEPT ![i] = acc]]
      ELSE [acc |-> acc, out |-> st.out]

\* Variant of combine_op that combines the right accumulator before the left one.
combine_op_swapped(kind, acc1, acc2, out, first, mid, last) ==
  [acc |-> foldl(acc2, acc1),
   out |-> IF kind = "scan"
           THEN [j \in DOMAIN out |->
                   IF mid <= j /\ j < last THEN foldr(acc1, out[j]) ELSE out[j]]
           ELSE out]

\* combine_op of transform_reduce and of transform_inclusive_scan: for a scan the
\* left accumulator acc1 is added to the outputs of [mid, last), then
\* acc1 = acc1 + acc2.
combine_op(kind, acc1, acc2, out, first, mid, last) ==
  [acc |-> foldl(acc1, acc2),
   out |-> IF kind = "scan"
           THEN [j \in DOMAIN out |->
                   IF mid <= j /\ j < last THEN foldr(acc1, out[j]) ELSE out[j]]
           ELSE out]

\* for_each_aux under the sequenced policy with accumulate_op on [first, last)
RECURSIVE for_each_accumulate(_, _, _, _, _)
for_each_accumulate(kind, st, xs, first, last) ==
  IF first >= last THEN st
  ELSE for_each_accumulate(kind, accumulate_op(kind, st, xs, first), xs, first + 1, last)

\* Variant of parallel_reduce_generic whose stolen right half starts from the
\* accumulator of the caller.
RECURSIVE parallel_reduce_generic_noidentity(_, _, _, _, _, _, _)
parallel_reduce_generic_noidentity(kind, cutoff_count, stolen, st, xs, first, last) ==
  LET d == last - first
  IN  IF d <= cutoff_count
      THEN for_each_accumulate(kind, st, xs, first, last)
      ELSE LET mid == first + d \div 2
               th  == parallel_reduce_generic_noidentity(kind, cutoff_count, stolen, st,
                                                         xs, first, mid)
           IN  IF <<first, last>> \notin stolen
               THEN parallel_reduce_generic_noidentity(kind, cutoff_count, stolen, th,
                                                       xs, mid, last)
               ELSE LET r == parallel_reduce_generic_noidentity(
                               kind, cutoff_count, stolen,
                               [acc |-> st.acc, out |-> th.out], xs, mid, last)
                    IN  combine_op(kind, th.acc, r.acc, r.out, first, mid, last)

\* internal::parallel_reduce_generic with the accumulator passed by value
\* (Reducer::direct_accumulation): the fork of [first, last) is serialized unless
\* <<first, last>> is in stolen.
RECURSIVE parallel_reduce_generic(_, _, _, _, _, _, _)
parallel_reduce_generic(kind, cutoff_count, stolen, st, xs, first, last) ==
  LET d == last - first
  IN  IF d <= cutoff_count
      THEN for_each_accumulate(kind, st, xs, first, last)
      ELSE LET mid == first + d \div 2
               th  == parallel_reduce_generic(kind, cutoff_count, stolen, st, xs, first, mid)
           IN  IF <<first, last>> \notin stolen
               THEN parallel_reduce_generic(kind, cutoff_count, stolen, th, xs, mid, last)
               ELSE LET new_acc == reducer_identity
                        r == parallel_reduce_generic(kind, cutoff_count, stolen,
                                                     [acc |-> new_acc, out |-> th.out],
                                                     xs, mid, last)
                    IN  combine_op(kind, th.acc, r.acc, r.out, first, mid, last)

\* internal::parallel_reduce_generic with an accumulator view: the child thread
\* accumulates the left half into acc_view; the right half goes on into acc_view
\* when the fork was serialized, and into a new accumulator acc_r, combined into
\* acc_view after the join, when the continuation was stolen.
RECURSIVE parallel_reduce_generic_view(_, _, _, _, _, _, _)
parallel_reduce_generic_view(kind, cutoff_count, stolen, acc_view, xs, first, last) ==
  LET d == last - first
  IN  IF d <= cutoff_count
      THEN for_each_accumulate(kind, acc_view, xs, first, last)
      ELSE LET mid == first + d \div 2
               th  == parallel_reduce_generic_view(kind, cutoff_count, stolen, acc_view,
                                                   xs, first, mid)
           IN  IF <<first, last>> \notin stolen
               THEN parallel_reduce_generic_view(kind, cutoff_count, stolen, th, xs, mid, last)
               ELSE LET acc_r == reducer_identity
                        r == parallel_reduce_generic_view(kind, cutoff_count, stolen,
                                                          [acc |-> acc_r, out |-> th.out],
                                                          xs, mid, last)
                    IN  combine_op(kind, th.acc, r.acc, r.out, first, mid, last)

\* internal::reduce_generic: the sequenced policy folds the range in order, the
\* parallel policy calls parallel_reduce_generic.
reduce_generic(kind, policy, in, acc) ==
  LET st == [acc |-> acc, out |-> [j \in 0..(Len(in.xs) - 1) |-> Unwritten]]
  IN  IF policy = "seq"
      THEN for_each_accumulate(kind, st, in.xs, 0, Len(in.xs))
      ELSE IF in.direct_accumulation
           THEN parallel_reduce_generic(kind, in.cutoff_count, in.stolen, st,
                                        in.xs, 0, Len(in.xs))
           ELSE parallel_reduce_generic_view(kind, in.cutoff_count, in.stolen, st,
                                             in.xs, 0, Len(in.xs))

\* transform_reduce(policy, first, last, reducer, unary_transform_op)
transform_reduce(policy, in) ==
  reduce_generic("reduce", policy, in, reducer_identity).acc

\* transform_inclusive_scan(policy, first1, last1, first_d, reducer,
\* unary_transform_op, init): the output range and the returned iterator, as an
\* offset from first_d.
transform_inclusive_scan(policy, in) ==
  [out |-> reduce_generic("scan", policy, in, in.init).out, ret |-> Len(in.xs)]

\* The forks of parallel_reduce_generic over [first, last)
RECURSIVE Forks(_, _, _)
Forks(cutoff_count, first, last) ==
  IF last - first <= cutoff_count THEN {}
  ELSE {<<first, last>>}
       \cup Forks(cutoff_count, first, first + (last - first) \div 2)
       \cup Forks(cutoff_count, first + (last - first) \div 2, last)

\* A call: the range, the policy's cutoff_count, the kind of reducer, the initial
\* value of a scan, and the forks whose continuation is stolen.
ReduceInit ==
  /\ \E n \in 0..MaxN, c \in 1..MaxCutoff :
       \E xs \in [1..n -> Elems], st \in SUBSET Forks(c, 0, n),
          da \in BOOLEAN, init \in {<<>>, <<"i">>} :
         rin = [xs |-> xs, cutoff_count |-> c, stolen |-> st,
                direct_accumulation |-> da, init |-> init]
  /\ rout = [op |-> "none"]
  /\ NotReduceIdle

\* transform_reduce under the parallel or the sequenced policy
TransformReduce ==
  /\ \E policy \in {"par", "seq"} :
       rout' = [op |-> "transform_reduce", policy |-> policy,
                ret |-> transform_reduce(policy, rin)]
  /\ UNCHANGED rin
  /\ UNCHANGED notReduce

\* transform_inclusive_scan under the parallel or the sequenced policy
TransformInclusiveScan ==
  /\ \E policy \in {"par", "seq"} :
       LET got == transform_inclusive_scan(policy, rin)
       IN  rout' = [op |-> "transform_inclusive_scan", policy |-> policy,
                    out |-> got.out, ret |-> got.ret]
  /\ UNCHANGED rin
  /\ UNCHANGED notReduce

ReduceNext == TransformReduce \/ TransformInclusiveScan

ReduceSpec == ReduceInit /\ [][ReduceNext]_vars

(***************************************************************************)
(* Properties of reduce and inclusive scan                                 *)
(***************************************************************************)

\* identity + f(x_0) + ... + f(x_{k-1}), starting from acc, combined in order.
RECURSIVE FoldInOrder(_, _, _)
FoldInOrder(acc, xs, k) ==
  IF k = 0 THEN acc ELSE FoldInOrder(acc, xs, k - 1) \o <<xs[k]>>

\* C15: for an associative reducer with an identity that is not commutative,
\* transform_reduce over [first, last) returns identity + f(x_0) + ... +
\* f(x_{n-1}) combined in iterator order, for every cutoff_count >= 1 and every
\* outcome of each fork; the parallel result equals the sequential one; for an
\* empty range the result is the identity.
C15_ReduceInOrder ==
  rout.op = "transform_reduce" =>
    /\ rout.ret = FoldInOrder(<<>>, rin.xs, Len(rin.xs))
    /\ rout.ret = transform_reduce("seq", rin)
    /\ Len(rin.xs) = 0 => rout.ret = <<>>

C15_Witness ==
  /\ rout.op = "transform_reduce"
  /\ rout.policy = "par"
  /\ rin.cutoff_count = 1
  /\ rin.xs = <<"a", "b", "b", "a", "b">>
  /\ rin.stolen = {<<0, 5>>, <<2, 5>>}
  /\ rout.ret = rin.xs

MaxSearchN == 5

\* The elements are 1..MaxSearchVal.
MaxSearchVal == 2

\* policy.cutoff_count
MaxSearchCutoff == 3

\* comp: std::less<>
comp(x, y) == x < y

\* std::min_element(f, l, comp) on the offsets [f, l), f < l: the first element
\* that no other element is less than.
std_min_element(xs, f, l) ==
  CHOOSE i \in f..(l - 1) :
    /\ \A j \in f..(l - 1) : ~comp(xs[j + 1], xs[i + 1])
    /\ \A j \in f..(i - 1) : comp(xs[i + 1], xs[j + 1])

\* std::max_element(f, l, comp): the first element that is less than no other.
std_max_element(xs, f, l) ==
  CHOOSE i \in f..(l - 1) :
    /\ \A j \in f..(l - 1) : ~comp(xs[i + 1], xs[j + 1])
    /\ \A j \in f..(i - 1) : comp(xs[j + 1], xs[i + 1])

\* std::minmax_element(f, l, comp): the first smallest element and the last
\* largest element.
std_minmax_element(xs, f, l) ==
  [min_it |-> std_min_element(xs, f, l),
   max_it |-> CHOOSE i \in f..(l - 1) :
                /\ \A j \in f..(l - 1) : ~comp(xs[i + 1], xs[j + 1])
                /\ \A j \in (i + 1)..(l - 1) : comp(xs[j + 1], xs[i + 1])]

\* leaf_op of min_element ("min"), max_element ("max") and minmax_element
\* ("minmax") on the checked-out offsets [f, l): the iterators found.
leaf_op(kind, xs, f, l) ==
  CASE kind = "min"    -> <<std_min_element(xs, f, l)>>
    [] kind = "max"    -> <<std_max_element(xs, f, l)>>
    [] kind = "minmax" -> <<std_minmax_element(xs, f, l).min_it,
                            std_minmax_element(xs, f, l).max_it>>

\* Variant of select_op that takes the right result when the two compare equal.
select_op_right_on_tie(kind, xs, its_l, its_r) ==
  CASE kind = "min"    -> IF ~comp(xs[its_l[1] + 1], xs[its_r[1] + 1]) THEN its_r ELSE its_l
    [] kind = "max"    -> IF ~comp(xs[its_r[1] + 1], xs[its_l[1] + 1]) THEN its_r ELSE its_l
    [] kind = "minmax" ->
         <<IF comp(xs[its_r[1] + 1], xs[its_l[1] + 1]) THEN its_r[1] ELSE its_l[1],
           IF comp(xs[its_l[2] + 1], xs[its_r[2] + 1]) THEN its_r[2] ELSE its_l[2]>>

\* select_op: the values compared are the values at the iterators found (copied
\* by the leaf for a trivially copyable value type, checked out again otherwise).
select_op(kind, xs, its_l, its_r) ==
  CASE kind = "min"    -> IF comp(xs[its_r[1] + 1], xs[its_l[1] + 1]) THEN its_r ELSE its_l
    [] kind = "max"    -> IF comp(xs[its_l[1] + 1], xs[its_r[1] + 1]) THEN its_r ELSE its_l
    [] kind = "minmax" ->
         <<IF comp(xs[its_r[1] + 1], xs[its_l[1] + 1]) THEN its_r[1] ELSE its_l[1],
           IF comp(xs[its_l[2] + 1], xs[its_r[2] + 1]) THEN its_r[2] ELSE its_l[2]>>

\* The checkouts select_op issues: none for a trivially copyable value type,
\* else checkout_global_iterators(1, ...) on the iterators of both results.
select_op_checkouts(trivially_copyable, its_l, its_r) ==
  IF trivially_copyable THEN <<>>
  ELSE [q \in 1..(Len(its_l) + Len(its_r)) |->
          [ptr |-> IF q <= Len(its_l) THEN its_l[q] ELSE its_r[q - Len(its_l)], n |-> 1]]

\* internal::search_aux on the offsets [first, last): the iterators found and
\* the checkouts issued (offset and number of elements), in the order of a
\* serial execution.
RECURSIVE search_aux(_, _, _, _, _)
search_aux(kind, args, xs, first, last) ==
  LET d == last - first
  IN  IF d <= args.cutoff_count
      THEN [its |-> leaf_op(kind, xs, first, last),
            checkouts |-> <<[ptr |-> first, n |-> d]>>]
      ELSE LET mid == first + d \div 2
               r1  == search_aux(kind, args, xs, first, mid)
               r2  == search_aux(kind, args, xs, mid, last)
           IN  [its |-> select_op(kind, xs, r1.its, r2.its),
                checkouts |-> r1.checkouts \o r2.checkouts
                              \o select_op_checkouts(args.trivially_copyable, r1.its, r2.its)]

\* min_element / max_element / minmax_element under a parallel policy
search_element(kind, args) ==
  IF Len(args.xs) <= 1
  THEN [its |-> IF kind = "minmax" THEN <<0, 0>> ELSE <<0>>, checkouts |-> <<>>]
  ELSE search_aux(kind, args, args.xs, 0, Len(args.xs))

\* A call: the range and a policy that passes assert_policy
\* (0 < checkout_count <= cutoff_count).
SearchInit ==
  /\ \E n \in 0..MaxSearchN, cutoff \in 1..MaxSearchCutoff :
       \E xs \in [1..n -> 1..MaxSearchVal], checkout \in 1..cutoff, tc \in BOOLEAN :
         sargs = [xs |-> xs, cutoff_count |-> cutoff, checkout_count |-> checkout,
                  trivially_copyable |-> tc]
  /\ sres = [op |-> "none"]
  /\ NotSearchIdle

MinElement ==
  /\ sres' = [op |-> "min_element"] @@ search_element("min", sargs)
  /\ UNCHANGED sargs
  /\ UNCHANGED notSearch

MaxElement ==
  /\ sres' = [op |-> "max_element"] @@ search_element("max", sargs)
  /\ UNCHANGED sargs
  /\ UNCHANGED notSearch

MinmaxElement ==
  /\ sres' = [op |-> "minmax_element"] @@ search_element("minmax", sargs)
  /\ UNCHANGED sargs
  /\ UNCHANGED notSearch

SearchNext == MinElement \/ MaxElement \/ MinmaxElement

SearchSpec == SearchInit /\ [][SearchNext]_vars

(***************************************************************************)
(* Properties of the searches                                              *)
(***************************************************************************)

\* The offset of the first minimum of xs, and of the first maximum.
FirstMin(xs) ==
  CHOOSE i \in 0..(Len(xs) - 1) :
    /\ \A j \in 0..(Len(xs) - 1) : xs[i + 1] <= xs[j + 1]
    /\ \A j \in 0..(i - 1) : xs[j + 1] > xs[i + 1]

FirstMax(xs) ==
  CHOOSE i \in 0..(Len(xs) - 1) :
    /\ \A j \in 0..(Len(xs) - 1) : xs[i + 1] >= xs[j + 1]
    /\ \A j \in 0..(i - 1) : xs[j + 1] < xs[i + 1]

\* C17: min_element returns an iterator to the first minimum and max_element an
\* iterator to the first maximum of [first, last), whether equal minima or maxima
\* lie in one leaf or in several, for every cutoff_count >= 1; for ranges of
\* length 0 or 1 they return first.
C17_FirstMinFirstMax ==
  /\ sres.op = "min_element" =>
       sres.its = <<IF Len(sargs.xs) <= 1 THEN 0 ELSE FirstMin(sargs.xs)>>
  /\ sres.op = "max_element" =>
       sres.its = <<IF Len(sargs.xs) <= 1 THEN 0 ELSE FirstMax(sargs.xs)>>

C17_Witness ==
  /\ sres.op = "max_element"
  /\ sargs.xs = <<1, 2, 2, 1, 2>>
  /\ sargs.cutoff_count = 2
  /\ sres.its = <<1>>

\* C18 (as stated): minmax_element returns the pair (iterator to the first
\* minimum, iterator to the first maximum) of [first, last), for every input and
\* every cutoff_count >= 1.
C18_MinmaxFirstFirst ==
  sres.op = "minmax_element" =>
    sres.its = IF Len(sargs.xs) <= 1 THEN <<0, 0>>
               ELSE <<FirstMin(sargs.xs), FirstMax(sargs.xs)>>

\* C19 (as stated): no checkout issued by min_element, max_element or
\* minmax_element covers more than checkout_count elements, for every policy with
\* checkout_count <= cutoff_count.
C19_CheckoutGranularity ==
  sres.op \in {"min_element", "max_element", "minmax_element"} =>
    \A q \in DOMAIN sres.checkouts : sres.checkouts[q].n <= sargs.checkout_count

(***************************************************************************)
(* for_each_aux under a sequenced policy                                   *)
(***************************************************************************)

\* Length of the range [first, last).
MaxFeN == 4

\* policy.checkout_count
MaxFeC == 3

\* Number of iterators passed (first and firsts...).
MaxFeIts == 2

\* Where the q-th iterator starts: the ranges of different iterators are disjoint.
FeBase(q) == 1 + (q - 1) * (MaxFeN + 1)

FeKeys == [ptr : 1..(MaxFeIts * (MaxFeN + 1)), n : 1..MaxFeC, mode : SpanModes]

\* The iterators of a call: global iterators with their mode, or other iterators
\* (such as count_iterator, which starts at 0).
FeIterators(m) ==
  {its \in [1..m -> [global : BOOLEAN, ptr : 0..FeBase(MaxFeIts), mode : SpanModes \cup {"none"}]] :
     \A q \in 1..m : IF its[q].global
                     THEN its[q].ptr = FeBase(q) /\ its[q].mode \in SpanModes
                     ELSE its[q].ptr = 0 /\ its[q].mode = "none"}

\* Variant of the batch length that always takes checkout_count elements.
batch_size_full(n, d, c) == c

\* auto n_ = std::min(n - d, c)
batch_size(n, d, c) == IF n - d < c THEN n - d ELSE c

\* The orders in which the spans of the tuple css can be destroyed.
DestroyOrders(k) == {p \in [1..k -> 1..k] : \A a, b \in 1..k : p[a] = p[b] => a = b}

\* The ori calls of destroying the spans css in the order p.
RECURSIVE destroy_css(_, _, _)
destroy_css(css, p, from) ==
  IF from > Len(css) THEN <<>>
  ELSE span_destroy(css[p[from]]) \o destroy_css(css, p, from + 1)

\* The record of a step of the loop: the ori calls it made and ori afterwards.
FeCalls(calls) ==
  LET st == ori_apply([out |-> flog.out, bad |-> flog.bad], calls)
  IN  [flog EXCEPT !.calls = @ \o calls, !.out = st.out, !.bad = st.bad]

\* The call for_each_aux(policy, op, first, last, firsts...) with at least one
\* global iterator and a policy that passes assert_policy (0 < checkout_count):
\* n = distance(first, last), c = policy.checkout_count, d = 0.
ForEachInit ==
  /\ \E n \in 0..MaxFeN, c \in 1..MaxFeC, m \in 1..MaxFeIts : \E its \in FeIterators(m) :
       /\ \E q \in 1..m : its[q].global
       /\ fargs = [n |-> n, c |-> c, its |-> its]
       /\ fe = [pc |-> "loop", d |-> 0, first |-> [q \in 1..m |-> its[q].ptr],
                n_ |-> 0, i |-> 0, css |-> <<>>, its |-> <<>>]
  /\ flog = [calls |-> <<>>, out |-> [k \in FeKeys |-> 0], bad |-> FALSE, visited |-> <<>>]
  /\ NotForEachIdle

\* d < n: n_ = min(n - d, c); checkout_global_iterators(n_, first, firsts...)
ForEachCheckout ==
  /\ fe.pc = "loop"
  /\ fe.d < fargs.n
  /\ LET n_  == batch_size(fargs.n, fe.d, fargs.c)
         got == checkout_global_iterators(
                  n_, [q \in DOMAIN fargs.its |-> [fargs.its[q] EXCEPT !.ptr = fe.first[q]]])
     IN  /\ fe' = [fe EXCEPT !.pc = "apply", !.n_ = n_, !.i = 0,
                             !.css = got.css, !.its = got.its]
         /\ flog' = FeCalls(got.calls)
  /\ UNCHANGED fargs
  /\ UNCHANGED notForEach

\* apply_iterators: i < n: op(*its...); ++i, ++its
ForEachApply ==
  /\ fe.pc = "apply"
  /\ fe.i < fe.n_
  /\ flog' = [flog EXCEPT !.visited = Append(@, fe.its)]
  /\ fe' = [fe EXCEPT !.i = @ + 1, !.its = [q \in DOMAIN fe.its |-> fe.its[q] + 1]]
  /\ UNCHANGED fargs
  /\ UNCHANGED notForEach

\* The end of an iteration: first and firsts advance by n_, the spans css are
\* destroyed, d += c.
ForEachEndBatch ==
  /\ fe.pc = "apply"
  /\ fe.i = fe.n_
  /\ \E p \in DestroyOrders(Len(fe.css)) : flog' = FeCalls(destroy_css(fe.css, p, 1))
  /\ fe' = [fe EXCEPT !.pc = "loop", !.d = @ + fargs.c,
                      !.first = [q \in DOMAIN fe.first |-> fe.first[q] + fe.n_],
                      !.css = <<>>, !.its = <<>>]
  /\ UNCHANGED fargs
  /\ UNCHANGED notForEach

\* !(d < n): the loop ends and for_each_aux returns.
ForEachReturn ==
  /\ fe.pc = "loop"
  /\ ~(fe.d < fargs.n)
  /\ fe' = [fe EXCEPT !.pc = "done"]
  /\ UNCHANGED <<fargs, flog>>
  /\ UNCHANGED notForEach

ForEachNext == ForEachCheckout \/ ForEachApply \/ ForEachEndBatch \/ ForEachReturn

ForEachSpec == ForEachInit /\ [][ForEachNext]_vars /\ WF_vars(ForEachNext)

(***************************************************************************)
(* Properties of for_each_aux                                              *)
(***************************************************************************)

\* ceil(n / c)
FeBatches == (fargs.n + fargs.c - 1) \div fargs.c

\* The global iterators of the call, in the order passed.
FeGlobals == SelectSeq([q \in DOMAIN fargs.its |-> q], LAMBDA q : fargs.its[q].global)

\* Length of the b-th batch: min(c, remaining)
FeBatchLen(b) ==
  IF fargs.n - (b - 1) * fargs.c < fargs.c THEN fargs.n - (b - 1) * fargs.c ELSE fargs.c

\* The ori call of kind call for the b-th batch of the g-th global iterator.
FeBatchCall(call, b, g) ==
  LET q == FeGlobals[g]
  IN  OriCall(call, FeBase(q) + (b - 1) * fargs.c, FeBatchLen(b), fargs.its[q].mode)

\* The ori calls made so far are those of successive batches: per batch one
\* checkout_nb per global iterator in the order passed, one checkout_complete,
\* and, after op has been applied, one checkin per global iterator.
FeCallsInBatches ==
  LET g == Len(FeGlobals)
      w == 2 * g + 1
  IN  \A x \in 1..Len(flog.calls) :
        LET b == ((x - 1) \div w) + 1
            r == ((x - 1) % w) + 1
        IN  /\ b <= FeBatches
            /\ r <= g => flog.calls[x] = FeBatchCall("checkout_nb", b, r)
            /\ r = g + 1 => flog.calls[x] = OriCheckoutComplete
            /\ r > g + 1 =>
                 /\ \E h \in 1..g : flog.calls[x] = FeBatchCall("checkin", b, h)
                 /\ \A y \in ((b - 1) * w + g + 2)..(x - 1) : flog.calls[y] # flog.calls[x]
                 /\ Len(flog.visited) >= (b - 1) * fargs.c + FeBatchLen(b)

\* op has been applied to the elements in increasing order, once each.
FeVisitedInOrder ==
  /\ Len(flog.visited) <= fargs.n
  /\ \A k \in 1..Len(flog.visited) :
       flog.visited[k] = [q \in DOMAIN fargs.its |-> fargs.its[q].ptr + k - 1]

\* What ori holds checked out: per global iterator at most one range, of at most
\* c elements.
FeAtMostC ==
  /\ ~flog.bad
  /\ \A g \in 1..Len(FeGlobals) :
       LET q  == FeGlobals[g]
           ks == {k \in FeKeys : flog.out[k] > 0 /\ k.ptr \in FeBase(q)..(FeBase(q) + MaxFeN)}
       IN  /\ Cardinality(ks) <= 1
           /\ \A k \in ks : flog.out[k] = 1 /\ k.n <= fargs.c
  /\ fe.pc \in {"loop", "done"} => \A k \in FeKeys : flog.out[k] = 0
  /\ fe.pc = "apply" =>
       \A g \in 1..Len(FeGlobals) :
         LET q == FeGlobals[g]
         IN  /\ flog.out[[ptr |-> fe.first[q], n |-> fe.n_, mode |-> fargs.its[q].mode]] = 1
             /\ fe.its[q] = fe.first[q] + fe.i

FeSafety ==
  /\ FeCallsInBatches
  /\ FeVisitedInOrder
  /\ FeAtMostC
  /\ fe.pc = "done" =>
       /\ Len(flog.calls) = FeBatches * (2 * Len(FeGlobals) + 1)
       /\ Len(flog.visited) = fargs.n

MaxMbLen == 5

\* policy.checkout_count
MaxMbC == 3

\* The value of a moved-from element (common::move_only_t).
MovedFrom == -1

\* *it of a reverse iterator whose base is it: the element before the base.
reverse_deref(it) == it - 1

\* Variant of the loop body that copies the source element and leaves it as it was.
move_assign_op_copy(mem, r1, d) == [mem EXCEPT ![reverse_deref(d)] = mem[reverse_deref(r1)]]

\* The loop body d = std::move(r1) on the elements the two reverse iterators
\* point at; checked-out elements are the elements of the global array.
move_assign_op(mem, r1, d) ==
  IF reverse_deref(r1) = reverse_deref(d) THEN mem
  ELSE [mem EXCEPT ![reverse_deref(d)] = mem[reverse_deref(r1)],
                   ![reverse_deref(r1)] = MovedFrom]

\* apply_iterators(op, n, its...) on the two reverse iterators: ++ moves the
\* base of a reverse iterator down.
RECURSIVE mb_apply_iterators(_, _, _, _)
mb_apply_iterators(mem, n, r1, d) ==
  IF n = 0 THEN mem
  ELSE mb_apply_iterators(move_assign_op(mem, r1, d), n - 1, r1 - 1, d - 1)

\* for_each_aux(policy, op, rfirst, rlast, rfirst_d): the loop over d from the
\* current d on; first and firsts are the bases of the reverse iterators.
RECURSIVE mb_for_each_aux(_, _, _, _, _, _)
mb_for_each_aux(mem, n, c, d, first, firsts) ==
  IF ~(d < n) THEN mem
  ELSE LET n_ == batch_size(n, d, c)
       IN  mb_for_each_aux(mb_apply_iterators(mem, n_, first, firsts),
                           n, c, d + c, first - n_, firsts - n_)

\* move_backward(policy, first1, last1, first_d)
move_backward(a) ==
  [mem |-> mb_for_each_aux(a.mem, a.last1 - a.first1, a.c, 0, a.last1, a.first_d),
   ret |-> a.first_d - (a.last1 - a.first1)]

\* A call on an array of distinct elements; the destination range
\* [first_d - n, first_d) lies within the array.
MoveBackwardInit ==
  /\ \E first1 \in 0..MaxMbLen, last1 \in 0..MaxMbLen, first_d \in 0..MaxMbLen, c \in 1..MaxMbC :
       /\ first1 <= last1
       /\ first_d - (last1 - first1) >= 0
       /\ mbargs = [mem |-> [k \in 0..(MaxMbLen - 1) |-> k + 1], first1 |-> first1,
                    last1 |-> last1, first_d |-> first_d, c |-> c]
  /\ mbres = [op |-> "none"]
  /\ NotMoveBackwardIdle

MoveBackward ==
  /\ mbres' = [op |-> "move_backward"] @@ move_backward(mbargs)
  /\ UNCHANGED mbargs
  /\ UNCHANGED notMoveBackward

MoveBackwardNext == MoveBackward

MoveBackwardSpec == MoveBackwardInit /\ [][MoveBackwardNext]_vars

(***************************************************************************)
(* Properties of move_backward                                             *)
(***************************************************************************)

MbN == mbargs.last1 - mbargs.first1

\* first_d is not within (first1, last1]: the destination does not end inside
\* the source.
MbPrecondition == ~(mbargs.first1 < mbargs.first_d /\ mbargs.first_d <= mbargs.last1)

\* C21: move_backward gives the element at first_d - 1 - i the original value
\* of the element at last1 - 1 - i for every i in [0, n), also when the
\* destination overlaps the source and ends after it, for every checkout_count;
\* source elements not overwritten are left moved-from, the other elements keep
\* their values, and it returns first_d - n.
C21_MoveBackward ==
  (mbres.op # "none" /\ MbPrecondition) =>
    /\ \A i \in 0..(MbN - 1) :
         mbres.mem[mbargs.first_d - 1 - i] = mbargs.mem[mbargs.last1 - 1 - i]
    /\ \A k \in mbargs.first1..(mbargs.last1 - 1) :
         ~(mbargs.first_d - MbN <= k /\ k < mbargs.first_d) => mbres.mem[k] = MovedFrom
    /\ \A k \in 0..(MaxMbLen - 1) :
         (~(mbargs.first_d - MbN <= k /\ k < mbargs.first_d)
          /\ ~(mbargs.first1 <= k /\ k < mbargs.last1)) => mbres.mem[k] = mbargs.mem[k]
    /\ mbres.ret = mbargs.first_d - MbN

C21_Witness ==
  /\ mbres.op = "move_backward"
  /\ mbargs.first1 = 0 /\ mbargs.last1 = 3 /\ mbargs.first_d = 4 /\ mbargs.c = 2
  /\ mbres.mem = [k \in 0..(MaxMbLen - 1) |-> IF k = 0 THEN MovedFrom ELSE IF k = 4 THEN 5 ELSE k]
  /\ mbres.ret = 1

(***************************************************************************)
(* Block cache, coherence controller and checkout of the DSM, as the       *)
(* specification describes them (sections 4.3, 4.4, 4.5 and 5): one task   *)
(* that works on global blocks and migrates between ranks.                 *)
(***************************************************************************)

\* Number of ranks.
NCacheRanks == 2

\* Number of blocks of the allocation.
NCacheBlocks == 3

\* cache_size: slabs of the cache of one rank.
CacheCapacity == 2

\* Checkouts in write or read_write mode the task makes.
MaxWrites == 2

CacheRanks == 0..(NCacheRanks - 1)

CacheBlocks == 1..NCacheBlocks

\* The value the task stores next: the number of its write checkout, so that
\* every store is told from the ones before; 0 is the initial content.
CacheVal == chist.nwrites

\* The content of a slab installed without a fetch.
Uninit == -1

\* The owner of a block: the allocation lies in the share of rank 0.
BlockOwner(b) == 0

InvalidEntry == [state |-> "Invalid", data |-> 0, dirty |-> FALSE, refcount |-> 0, epoch |-> 0]

Resident(r) == {b \in CacheBlocks : ccache[r][b].state # "Invalid"}

\* The LRU list after a use of block b.
Touch(l, b) == SelectSeq(l, LAMBDA x : x # b) \o <<b>>

Remove(l, b) == SelectSeq(l, LAMBDA x : x # b)

\* Variant of the LRU walk that takes the least recently used entry, pinned or not.
LruVictimAny(r) == IF clru[r] = <<>> THEN {} ELSE {clru[r][1]}

\* evict_one: the least recently used entry with refcount = 0.
LruVictim(r) ==
  LET un == SelectSeq(clru[r], LAMBDA x : ccache[r][x].refcount = 0)
  IN  IF un = <<>> THEN {} ELSE {un[1]}

\* Variant of the wait for a put that does not wait.
PutCompletedNoWait(r, b) == TRUE

\* The put that writes block b of rank r back has completed.
PutCompleted(r, b) == \A p \in cputs : ~(p.rank = r /\ p.block = b)

\* Variant of the staleness test that keeps every entry.
StaleNever(r, b) == FALSE

\* acquire: an entry whose epoch is older than the owner's current epoch.
Stale(r, b) == ccache[r][b].state = "Valid" /\ ccache[r][b].epoch < chome[b].epoch

CacheLog(r, op) ==
  [chist EXCEPT !.last = op]

CacheInit ==
  /\ \E r \in CacheRanks : ctask = [at |-> r, pc |-> "run", handle |-> {}, want |-> <<>>,
                                   dropped |-> {}]
  /\ chome = [b \in CacheBlocks |-> [data |-> 0, epoch |-> 0, written |-> FALSE]]
  /\ ccache = [r \in CacheRanks |-> [b \in CacheBlocks |-> InvalidEntry]]
  /\ clru = [r \in CacheRanks |-> <<>>]
  /\ cputs = {}
  /\ cheld = [b \in CacheBlocks |-> [mode |-> "none", stored |-> FALSE]]
  /\ chist = [shadow |-> [b \in CacheBlocks |-> 0],
              touched |-> [r \in CacheRanks |-> <<>>],
              nwrites |-> 0,
              synced |-> FALSE,
              last |-> [op |-> "none"]]
  /\ NotCacheIdle

\* cache.acquire(key) for an absent block once a slab is free: write mode
\* installs an uninitialised Valid entry, read and read_write issue the RMA get.
Install(r, b, mode, C) ==
  [C EXCEPT ![r][b] =
     IF mode = "write"
     THEN [state |-> "Valid", data |-> Uninit, dirty |-> FALSE, refcount |-> 1,
           epoch |-> chome[b].epoch]
     ELSE [state |-> "Fetching", data |-> Uninit, dirty |-> FALSE, refcount |-> 1,
           epoch |-> 0]]

\* The record of a checkout in the history.
CheckoutLog(r, b, mode, home, miss) ==
  [chist EXCEPT !.nwrites = IF mode = "read" THEN @ ELSE @ + 1,
                !.touched[r] = IF home THEN @ ELSE Touch(@, b),
                !.last = [op |-> "checkout", rank |-> r, block |-> b, mode |-> mode,
                          home |-> home, miss |-> miss,
                          again |-> \E i \in 1..Len(chist.touched[r]) :
                                      chist.touched[r][i] = b]]

CheckoutModes == {"read", "write", "read_write"}

CanCheckout(b, mode) ==
  /\ ctask.pc = "run"
  /\ cheld[b].mode = "none"
  /\ mode # "read" => chist.nwrites < MaxWrites

\* checkout of a block whose owner is the task's rank: the mapping is verified,
\* the cache is not used.
CacheCheckoutHome(b, mode) ==
  /\ CanCheckout(b, mode)
  /\ ctask.at = BlockOwner(b)
  /\ cheld' = [cheld EXCEPT ![b] = [mode |-> mode, stored |-> FALSE]]
  /\ chist' = CheckoutLog(ctask.at, b, mode, TRUE, FALSE)
  /\ UNCHANGED <<ctask, chome, ccache, clru, cputs>>
  /\ UNCHANGED notCache

\* checkout of a remote block that is present: the entry is pinned.
CacheCheckoutHit(b, mode) ==
  LET r == ctask.at
  IN  /\ CanCheckout(b, mode)
      /\ r # BlockOwner(b)
      /\ b \in Resident(r)
      /\ ccache' = [ccache EXCEPT ![r][b].refcount = @ + 1]
      /\ clru' = [clru EXCEPT ![r] = Touch(@, b)]
      /\ cheld' = [cheld EXCEPT ![b] = [mode |-> mode, stored |-> FALSE]]
      /\ chist' = CheckoutLog(r, b, mode, FALSE, FALSE)
      /\ UNCHANGED <<ctask, chome, cputs>>
      /\ UNCHANGED notCache

\* checkout of a remote block that is absent, with a free slab or a clean
\* least recently used unpinned entry, which is invalidated.
CacheCheckoutMiss(b, mode) ==
  LET r == ctask.at
  IN  /\ CanCheckout(b, mode)
      /\ r # BlockOwner(b)
      /\ b \notin Resident(r)
      /\ \/ /\ Cardinality(Resident(r)) < CacheCapacity
            /\ ccache' = Install(r, b, mode, ccache)
            /\ clru' = [clru EXCEPT ![r] = Touch(@, b)]
         \/ /\ Cardinality(Resident(r)) >= CacheCapacity
            /\ \E v \in LruVictim(r) :
                 /\ ~ccache[r][v].dirty
                 /\ ccache' = Install(r, b, mode, [ccache EXCEPT ![r][v] = InvalidEntry])
                 /\ clru' = [clru EXCEPT ![r] = Touch(Remove(@, v), b)]
      /\ ctask' = [ctask EXCEPT !.pc = IF mode = "write" THEN "run" ELSE "fetching",
                                !.want = <<b>>]
      /\ cheld' = [cheld EXCEPT ![b] = [mode |-> mode, stored |-> FALSE]]
      /\ chist' = CheckoutLog(r, b, mode, FALSE, TRUE)
      /\ UNCHANGED <<chome, cputs>>
      /\ UNCHANGED notCache

\* checkout of a remote block that is absent when the least recently used
\* unpinned entry is dirty: flush it (Valid -> Releasing, RMA put) and wait.
CacheEvictDirty(b, mode) ==
  LET r == ctask.at
  IN  /\ CanCheckout(b, mode)
      /\ r # BlockOwner(b)
      /\ b \notin Resident(r)
      /\ Cardinality(Resident(r)) >= CacheCapacity
      /\ \E v \in LruVictim(r) :
           /\ ccache[r][v].dirty
           /\ ccache' = [ccache EXCEPT ![r][v].state = "Releasing"]
           /\ cputs' = cputs \cup {[rank |-> r, block |-> v, data |-> ccache[r][v].data]}
           /\ ctask' = [ctask EXCEPT !.pc = "evicting", !.want = <<b, mode, v>>]
      /\ chist' = CacheLog(r, [op |-> "evict"])
      /\ UNCHANGED <<chome, clru, cheld>>
      /\ UNCHANGED notCache

\* The put of the victim has completed: clear its dirty bit, invalidate it, and
\* give its slab to the block wanted.
CacheEvictDone ==
  LET r    == ctask.at
      b    == ctask.want[1]
      mode == ctask.want[2]
      v    == ctask.want[3]
  IN  /\ ctask.pc = "evicting"
      /\ PutCompleted(r, v)
      /\ ccache' = Install(r, b, mode, [ccache EXCEPT ![r][v] = InvalidEntry])
      /\ clru' = [clru EXCEPT ![r] = Touch(Remove(@, v), b)]
      /\ ctask' = [ctask EXCEPT !.pc = IF mode = "write" THEN "run" ELSE "fetching",
                                !.want = <<b>>]
      /\ cheld' = [cheld EXCEPT ![b] = [mode |-> mode, stored |-> FALSE]]
      /\ chist' = CheckoutLog(r, b, mode, FALSE, TRUE)
      /\ UNCHANGED <<chome, cputs>>
      /\ UNCHANGED notCache

\* The RMA get of the block wanted completes: Fetching -> Valid.
CacheFetchDone ==
  LET r == ctask.at
      b == ctask.want[1]
  IN  /\ ctask.pc = "fetching"
      /\ ccache' = [ccache EXCEPT ![r][b].state = "Valid",
                                  ![r][b].data = chome[b].data,
                                  ![r][b].epoch = chome[b].epoch]
      /\ ctask' = [ctask EXCEPT !.pc = "run", !.want = <<>>]
      /\ chist' = CacheLog(r, [op |-> "fetched"])
      /\ UNCHANGED <<chome, clru, cputs, cheld>>
      /\ UNCHANGED notCache

\* The task stores v through the pointer of a write or read_write checkout.
CacheStore(b) ==
  LET r == ctask.at
      v == CacheVal
  IN  /\ ctask.pc = "run"
      /\ cheld[b].mode \in {"write", "read_write"}
      /\ ~cheld[b].stored
      /\ IF r = BlockOwner(b)
         THEN /\ chome' = [chome EXCEPT ![b].data = v, ![b].written = TRUE]
              /\ UNCHANGED ccache
         ELSE /\ ccache' = [ccache EXCEPT ![r][b].data = v]
              /\ UNCHANGED chome
      /\ cheld' = [cheld EXCEPT ![b].stored = TRUE]
      /\ chist' = [chist EXCEPT !.shadow[b] = v,
                                !.last = [op |-> "store"]]
      /\ UNCHANGED <<ctask, clru, cputs>>
      /\ UNCHANGED notCache

\* The task reads through the pointer of a read or read_write checkout.
CacheRead(b) ==
  LET r == ctask.at
  IN  /\ ctask.pc = "run"
      /\ cheld[b].mode \in {"read", "read_write"}
      /\ chist' = CacheLog(r, [op |-> "read", rank |-> r, block |-> b,
                               value |-> IF r = BlockOwner(b) THEN chome[b].data
                                         ELSE ccache[r][b].data])
      /\ UNCHANGED <<ctask, chome, ccache, clru, cputs, cheld>>
      /\ UNCHANGED notCache

\* checkin(ptr, n, mode): mark dirty for write and read_write, unpin; no flush.
\* A write checkout has overwritten the whole block.
CacheCheckin(b) ==
  LET r    == ctask.at
      mode == cheld[b].mode
  IN  /\ ctask.pc = "run"
      /\ mode # "none"
      /\ mode = "write" => cheld[b].stored
      /\ IF r = BlockOwner(b)
         THEN UNCHANGED <<ccache, clru>> /\ chist' = CacheLog(r, [op |-> "checkin"])
         ELSE /\ ccache' = [ccache EXCEPT ![r][b].dirty = @ \/ mode # "read",
                                          ![r][b].refcount = @ - 1]
              /\ clru' = [clru EXCEPT ![r] = Touch(@, b)]
              /\ chist' = [chist EXCEPT !.touched[r] = Touch(@, b),
                                        !.last = [op |-> "checkin"]]
      /\ cheld' = [cheld EXCEPT ![b] = [mode |-> "none", stored |-> FALSE]]
      /\ UNCHANGED <<ctask, chome, cputs>>
      /\ UNCHANGED notCache

\* The dirty entries of rank r.
DirtyEntries(r) == {b \in CacheBlocks : ccache[r][b].state = "Valid" /\ ccache[r][b].dirty}

\* release() and release_lazy(): every dirty entry goes Valid -> Releasing with an
\* RMA put in flight; the owner's own writes are ordered by a barrier and bump
\* the epoch.  release() then waits; release_lazy() returns a handle that
\* carries the requests in flight.
CacheRelease(lazy) ==
  LET r == ctask.at
      D == DirtyEntries(r)
  IN  /\ ctask.pc = "run"
      /\ \A b \in CacheBlocks : cheld[b].mode = "none"
      /\ ccache' = [ccache EXCEPT ![r] = [b \in CacheBlocks |->
                      IF b \in D THEN [ccache[r][b] EXCEPT !.state = "Releasing"]
                      ELSE ccache[r][b]]]
      /\ cputs' = cputs \cup {[rank |-> r, block |-> b, data |-> ccache[r][b].data] : b \in D}
      /\ chome' = [b \in CacheBlocks |->
                     IF r = BlockOwner(b) /\ chome[b].written
                     THEN [chome[b] EXCEPT !.epoch = @ + 1, !.written = FALSE]
                     ELSE chome[b]]
      /\ ctask' = [ctask EXCEPT !.pc = IF lazy THEN "released" ELSE "releasing",
                                !.dropped = {},
                                !.handle = IF lazy THEN {[rank |-> r, block |-> b] : b \in D}
                                           ELSE {}]
      /\ chist' = [chist EXCEPT !.synced = TRUE,
                                !.last = [op |-> IF lazy THEN "release_lazy" ELSE "release",
                                          puts |-> D # {}]]
      /\ UNCHANGED <<clru, cheld>>
      /\ UNCHANGED notCache

\* An RMA put completes at the owner: the home copy is written and the epoch
\* bump is piggy-backed on the completion.
CachePutComplete ==
  \E p \in cputs :
    /\ cputs' = cputs \ {p}
    /\ chome' = [chome EXCEPT ![p.block].data = p.data, ![p.block].epoch = @ + 1]
    /\ ccache' = [ccache EXCEPT ![p.rank][p.block].epoch = chome[p.block].epoch + 1]
    /\ chist' = CacheLog(p.rank, [op |-> "put_complete"])
    /\ UNCHANGED <<ctask, clru, cheld>>
    /\ UNCHANGED notCache

\* flush(entry), after the put: the bitmap is cleared, Releasing -> Valid.  The
\* rank does this while it waits in release() or acquire().
CacheFlushDone(r, b) ==
  /\ ccache[r][b].state = "Releasing"
  /\ ctask.at = r
  /\ ctask.pc \in {"releasing", "enter"}
  /\ PutCompleted(r, b)
  /\ ccache' = [ccache EXCEPT ![r][b].state = "Valid", ![r][b].dirty = FALSE]
  /\ chist' = CacheLog(r, [op |-> "flush_done"])
  /\ UNCHANGED <<ctask, chome, clru, cputs, cheld>>
  /\ UNCHANGED notCache

\* release() returns once every flush it started is done.
CacheReleaseDone ==
  LET r == ctask.at
  IN  /\ ctask.pc = "releasing"
      /\ \A b \in CacheBlocks : ccache[r][b].state # "Releasing"
      /\ ctask' = [ctask EXCEPT !.pc = "released"]
      /\ chist' = CacheLog(r, [op |-> "released"])
      /\ UNCHANGED <<chome, ccache, clru, cputs, cheld>>
      /\ UNCHANGED notCache

\* The scheduler passes the task to rank r2 after its release.
CacheMigrate(r2) ==
  /\ ctask.pc = "released"
  /\ ctask' = [ctask EXCEPT !.at = r2, !.pc = "enter"]
  /\ chist' = CacheLog(r2, [op |-> "migrate"])
  /\ UNCHANGED <<chome, ccache, clru, cputs, cheld>>
  /\ UNCHANGED notCache

\* acquire() and acquire(handle) on entry: wait for the requests of the handle
\* and for the rank's own flushes, then demote every entry whose epoch is older
\* than the owner's to Invalid.
CacheAcquire ==
  LET r == ctask.at
      S == {b \in CacheBlocks : Stale(r, b) /\ ccache[r][b].refcount = 0 /\ ~ccache[r][b].dirty}
  IN  /\ ctask.pc = "enter"
      /\ \A h \in ctask.handle : PutCompleted(h.rank, h.block)
      /\ \A b \in CacheBlocks : ccache[r][b].state # "Releasing"
      /\ ccache' = [ccache EXCEPT ![r] = [b \in CacheBlocks |->
                      IF b \in S THEN InvalidEntry ELSE ccache[r][b]]]
      /\ clru' = [clru EXCEPT ![r] = SelectSeq(@, LAMBDA x : x \notin S)]
      /\ ctask' = [ctask EXCEPT !.pc = "run", !.handle = {}, !.dropped = S]
      /\ chist' = CacheLog(r, [op |-> "acquire"])
      /\ UNCHANGED <<chome, cputs, cheld>>
      /\ UNCHANGED notCache

CacheNext ==
  \/ \E b \in CacheBlocks, mode \in CheckoutModes :
       \/ CacheCheckoutHome(b, mode)
       \/ CacheCheckoutHit(b, mode)
       \/ CacheCheckoutMiss(b, mode)
       \/ CacheEvictDirty(b, mode)
  \/ CacheEvictDone
  \/ CacheFetchDone
  \/ \E b \in CacheBlocks : CacheStore(b)
  \/ \E b \in CacheBlocks : CacheRead(b)
  \/ \E b \in CacheBlocks : CacheCheckin(b)
  \/ \E lazy \in BOOLEAN : CacheRelease(lazy)
  \/ CachePutComplete
  \/ \E r \in CacheRanks, b \in CacheBlocks : CacheFlushDone(r, b)
  \/ CacheReleaseDone
  \/ \E r2 \in CacheRanks : CacheMigrate(r2)
  \/ CacheAcquire

CacheSpec == CacheInit /\ [][CacheNext]_vars

(***************************************************************************)
(* Properties of the cache and of the coherence protocol                   *)
(***************************************************************************)

\* C22: coherent round trip: what the task reads from a block, on whatever rank
\* it runs after a release() and an acquire(), is the value last stored to the
\* block, whether or not the reading rank held a stale copy of the block.
C22_CoherentRoundTrip ==
  chist.last.op = "read" => chist.last.value = chist.shadow[chist.last.block]

C22_Witness ==
  /\ chist.last.op = "read"
  /\ chist.last.rank # BlockOwner(chist.last.block)
  /\ chist.last.value = 2
  /\ chist.last.block \in ctask.dropped
  /\ chist.nwrites = 2

(***************************************************************************)
(* The tasks of parallel_reduce_generic and their calls into ori and ito   *)
(***************************************************************************)

\* Length of the range reduced.
MaxParN == 4

\* policy.cutoff_count
MaxParCutoff == 2

\* Times the scheduler runs a cross-worker task from within ito::poll.
MaxPollTasks == 1

\* The invocation on [first, last) is named by its range.
ParLeft(x) == <<x[1], x[1] + (x[2] - x[1]) \div 2>>

ParRight(x) == <<x[1] + (x[2] - x[1]) \div 2, x[2]>>

ParIsLeaf(x) == x[2] - x[1] <= pargs.cutoff_count

\* The invocations of a call on [0, n).
RECURSIVE ParTree(_, _)
ParTree(x, cutoff) ==
  IF x[2] - x[1] <= cutoff THEN {x}
  ELSE {x} \cup ParTree(<<x[1], x[1] + (x[2] - x[1]) \div 2>>, cutoff)
           \cup ParTree(<<x[1] + (x[2] - x[1]) \div 2, x[2]>>, cutoff)

ParRoot == <<0, pargs.n>>

ParNodes == DOMAIN pinv

\* A release handle is named by the call of ori::release_lazy() that returned it.
NoHandle == <<"none", 0, 0>>

Handle(site, x) == <<site, x[1], x[2]>>

ParEvent(e, h, info) == [e |-> e, h |-> h, info |-> info]

\* ori::release_lazy(): a new handle, with the requests of the release in flight.
OriReleaseLazy(o, h) == [o EXCEPT !.issued = @ \cup {h}, !.inflight = @ \cup {h}]

\* ori::acquire(rh): waits for the requests of the handle.
OriAcquire(o, h) == [o EXCEPT !.inflight = @ \ {h}]

\* Variant of the acquire callback given to ito::poll that acquires only rh_.
poll_acquire_fn_only_rh_(rh, rh_) == <<ParEvent("acquire", rh_, {})>>

\* The acquire callback given to ito::poll:
\* [&](ori::release_handler rh_) { ori::acquire(rh); ori::acquire(rh_); }
poll_acquire_fn(rh, rh_) == <<ParEvent("acquire", rh, {}), ParEvent("acquire", rh_, {})>>

\* ori after the acquire events of a sequence of events.
RECURSIVE OriAfter(_, _)
OriAfter(o, evs) ==
  IF evs = <<>> THEN o
  ELSE OriAfter(IF Head(evs).e = "acquire" THEN OriAcquire(o, Head(evs).h) ELSE o, Tail(evs))

\* Variant of the handle the forked thread acquires on entry: the one the parent
\* will take in its branch for a thread that is not serialized.
thread_callback_rh_late(x) == Handle("stolen", x)

\* The handle captured by the on-enter callback of the thread an invocation
\* forks: [=] { ori::acquire(rh); } copies rh when the thread is created.
thread_callback_rh(x) == pinv[x].rh

NoInv == [pc |-> "none", rh |-> NoHandle, kind |-> "none", cb |-> NoHandle]

\* reduce_generic(parallel_policy, ...): assert_policy, rh = ori::release_lazy(),
\* and the call of parallel_reduce_generic on the whole range.
ParInit ==
  /\ \E n \in 0..MaxParN, cutoff \in 1..MaxParCutoff :
       /\ pargs = [n |-> n, cutoff_count |-> cutoff]
       /\ pinv = [x \in ParTree(<<0, n>>, cutoff) |->
                    IF x = <<0, n>>
                    THEN [pc |-> "poll", rh |-> Handle("entry", x), kind |-> "root",
                          cb |-> NoHandle]
                    ELSE NoInv]
       /\ plog = [x \in ParTree(<<0, n>>, cutoff) |->
                    IF x = <<0, n>>
                    THEN <<ParEvent("release_lazy", Handle("entry", x), {}),
                           ParEvent("call", Handle("entry", x), {})>>
                    ELSE <<>>]
       /\ pori = [issued |-> {Handle("entry", <<0, n>>)},
                  inflight |-> {Handle("entry", <<0, n>>)}, polled |-> 0]
  /\ NotParIdle

\* ito::thread(with_callback, on_enter, on_exit, body): the scheduler runs the
\* on-enter callback of a forked thread and then its body.
ParThreadEnter(x) ==
  /\ pinv[x].pc = "enter"
  /\ pinv' = [pinv EXCEPT ![x].pc = "poll"]
  /\ pori' = OriAcquire(pori, pinv[x].cb)
  /\ plog' = [plog EXCEPT ![x] = @ \o <<ParEvent("acquire", pinv[x].cb, {}),
                                        ParEvent("body_begin", NoHandle, {})>>]
  /\ UNCHANGED pargs
  /\ UNCHANGED notPar

\* ori::poll(); ito::poll(release_fn, acquire_fn): the scheduler may run a
\* cross-worker task at once; it then takes a handle from release_fn and gives
\* it to acquire_fn before the task runs.  The results are ori and the events.
ParPoll(x) ==
  {[ori |-> pori, evs |-> <<>>]} \cup
  IF pori.polled < MaxPollTasks
  THEN LET rh_ == Handle("poll", x)
           o1  == OriReleaseLazy(pori, rh_)
           evs == poll_acquire_fn(pinv[x].rh, rh_)
           o2  == OriAfter(o1, evs)
       IN  {[ori |-> [o2 EXCEPT !.polled = @ + 1],
             evs |-> <<ParEvent("poll_release_lazy", rh_, {})>> \o evs
                     \o <<ParEvent("cross_worker_task", rh_, o2.inflight)>>]}
  ELSE {}

\* What the end of an invocation adds to the events: the scheduler runs the
\* on-exit callback [] { ori::release(); } of a forked thread after its body.
ParReturn(x) ==
  IF pinv[x].kind = "thread"
  THEN <<ParEvent("body_end", NoHandle, {}), ParEvent("exit_release", NoHandle, {})>>
  ELSE <<ParEvent("return", NoHandle, {})>>

\* The polls, and with d <= cutoff_count: for_each_aux with accumulate_op, and
\* return.
ParLeaf(x) ==
  /\ pinv[x].pc = "poll"
  /\ ParIsLeaf(x)
  /\ \E p \in ParPoll(x) :
       /\ pori' = p.ori
       /\ plog' = [plog EXCEPT ![x] = @ \o p.evs \o <<ParEvent("accumulate", NoHandle, {})>>
                                        \o ParReturn(x)]
  /\ pinv' = [pinv EXCEPT ![x].pc = "done"]
  /\ UNCHANGED pargs
  /\ UNCHANGED notPar

\* The polls, task_group_begin and the fork of the thread for the left half; the
\* scheduler decides whether the thread is serialized.  The fork event keeps the
\* handles issued until then.
ParFork(x) ==
  /\ pinv[x].pc = "poll"
  /\ ~ParIsLeaf(x)
  /\ \E ser \in BOOLEAN, p \in ParPoll(x) :
       /\ pinv' = [pinv EXCEPT ![x].pc = IF ser THEN "ser_join" ELSE "stolen",
                               ![ParLeft(x)] = [pc |-> "enter", rh |-> pinv[x].rh,
                                                kind |-> "thread",
                                                cb |-> thread_callback_rh(x)]]
       /\ pori' = p.ori
       /\ plog' = [plog EXCEPT ![x] = @ \o p.evs
                                 \o <<ParEvent("task_group_begin", NoHandle, {}),
                                      ParEvent("fork", thread_callback_rh(x), p.ori.issued),
                                      ParEvent("serialized", NoHandle, {ser})>>]
  /\ UNCHANGED pargs
  /\ UNCHANGED notPar

\* th.serialized(): th.join(), then the recursion on the right half with the same
\* accumulator and the same rh.
ParSerializedJoin(x) ==
  /\ pinv[x].pc = "ser_join"
  /\ pinv[ParLeft(x)].pc = "done"
  /\ pinv' = [pinv EXCEPT ![x].pc = "ser_call",
                          ![ParRight(x)] = [pc |-> "poll", rh |-> pinv[x].rh,
                                            kind |-> "call", cb |-> NoHandle]]
  /\ plog' = [plog EXCEPT ![x] = @ \o <<ParEvent("join", NoHandle, {}),
                                        ParEvent("recurse", pinv[x].rh, {})>>,
                          ![ParRight(x)] = <<ParEvent("call", pinv[x].rh, {})>>]
  /\ UNCHANGED <<pargs, pori>>
  /\ UNCHANGED notPar

\* ... and task_group_end after the recursion has returned.
ParSerializedEnd(x) ==
  /\ pinv[x].pc = "ser_call"
  /\ pinv[ParRight(x)].pc = "done"
  /\ pinv' = [pinv EXCEPT ![x].pc = "done"]
  /\ plog' = [plog EXCEPT ![x] = @ \o <<ParEvent("task_group_end", NoHandle, {})>>
                                    \o ParReturn(x)]
  /\ UNCHANGED <<pargs, pori>>
  /\ UNCHANGED notPar

\* !th.serialized(): acc_r = reducer.identity(); rh = ori::release_lazy(); the
\* recursion on the right half with the new accumulator and the new rh.
ParStolen(x) ==
  LET h == Handle("stolen", x)
  IN  /\ pinv[x].pc = "stolen"
      /\ pori' = OriReleaseLazy(pori, h)
      /\ pinv' = [pinv EXCEPT ![x].pc = "st_call", ![x].rh = h,
                              ![ParRight(x)] = [pc |-> "poll", rh |-> h,
                                                kind |-> "call", cb |-> NoHandle]]
      /\ plog' = [plog EXCEPT ![x] = @ \o <<ParEvent("identity", NoHandle, {}),
                                            ParEvent("release_lazy", h, {}),
                                            ParEvent("recurse", h, {})>>,
                              ![ParRight(x)] = <<ParEvent("call", h, {})>>]
      /\ UNCHANGED pargs
      /\ UNCHANGED notPar

\* ori::release() after the recursion has returned.
ParRelease(x) ==
  /\ pinv[x].pc = "st_call"
  /\ pinv[ParRight(x)].pc = "done"
  /\ pinv' = [pinv EXCEPT ![x].pc = "st_join"]
  /\ plog' = [plog EXCEPT ![x] = Append(@, ParEvent("release", NoHandle, {}))]
  /\ UNCHANGED <<pargs, pori>>
  /\ UNCHANGED notPar

\* th.join() returns when the thread has ended, its on-exit callback included.
thread_join(x) == pinv[ParLeft(x)].pc = "done"

\* The events of the thread forked by an invocation, so far.
ParThreadEvents(x) == {plog[ParLeft(x)][i].e : i \in 1..Len(plog[ParLeft(x)])}

\* Variant of the end of the branch that combines before ori::acquire().
stolen_branch_end_combine_early(x) ==
  <<ParEvent("join", NoHandle, {}), ParEvent("task_group_end", NoHandle, {}),
    ParEvent("combine_op", NoHandle, ParThreadEvents(x)),
    ParEvent("acquire", NoHandle, {})>>

\* acc = th.join(); ito::task_group_end(...); ori::acquire();
\* combine_op(acc, std::move(acc_r), ...).  The combine_op event keeps the events
\* of the thread until then.
stolen_branch_end(x) ==
  <<ParEvent("join", NoHandle, {}), ParEvent("task_group_end", NoHandle, {}),
    ParEvent("acquire", NoHandle, {}),
    ParEvent("combine_op", NoHandle, ParThreadEvents(x))>>

\* th.join(), task_group_end, ori::acquire(), combine_op(acc, acc_r, ...) and
\* return.
ParJoin(x) ==
  /\ pinv[x].pc = "st_join"
  /\ thread_join(x)
  /\ pinv' = [pinv EXCEPT ![x].pc = "done"]
  /\ plog' = [plog EXCEPT ![x] = @ \o stolen_branch_end(x) \o ParReturn(x)]
  /\ UNCHANGED <<pargs, pori>>
  /\ UNCHANGED notPar

ParNext ==
  \E x \in ParNodes :
    \/ ParThreadEnter(x)
    \/ ParLeaf(x)
    \/ ParFork(x)
    \/ ParSerializedJoin(x)
    \/ ParSerializedEnd(x)
    \/ ParStolen(x)
    \/ ParRelease(x)
    \/ ParJoin(x)

ParSpec == ParInit /\ [][ParNext]_vars

(***************************************************************************)
(* Properties of the tasks of parallel_reduce_generic                      *)
(***************************************************************************)

ParThreads == {x \in ParNodes : pinv[x].kind = "thread"}

ParParent(x) == CHOOSE y \in ParNodes : ~ParIsLeaf(y) /\ x \in {ParLeft(y), ParRight(y)}

ParEncloses(y, x) == y[1] <= x[1] /\ x[2] <= y[2]

\* The handle was returned by release_lazy() at the entry of reduce_generic, or
\* in the branch of an enclosing invocation whose thread was not serialized,
\* before that invocation recursed into the right half holding x.
ParHandleFromEnclosing(h, x) ==
  \/ h = Handle("entry", ParRoot)
  \/ \E y \in ParNodes :
       /\ h = Handle("stolen", y)
       /\ ~ParIsLeaf(y)
       /\ ParEncloses(ParRight(y), x)
       /\ \E i \in 1..Len(plog[y]) : plog[y][i] = ParEvent("release_lazy", h, {})

\* The fork of x in the log of the invocation that created it.
ParForkEvents(x) ==
  {ev \in {plog[ParParent(x)][i] : i \in 1..Len(plog[ParParent(x)])} : ev.e = "fork"}

\* C23: every forked thread runs acquire(rh) as its first event, right before its
\* body begins, and release() as its last event, right after its body ends; rh is
\* a handle that release_lazy() had returned before the thread was created, at the
\* entry of reduce_generic or in an enclosing branch for a thread that was not
\* serialized; no body begins without that acquire before it.
C23_ThreadCallbacks ==
  /\ \A x \in ParNodes : (x # ParRoot /\ x = ParLeft(ParParent(x)) /\ pinv[x].pc # "none")
                            => pinv[x].kind = "thread"
  /\ \A x \in ParThreads :
       /\ \A i \in 1..Len(plog[x]) :
            plog[x][i].e = "body_begin" =>
              /\ i = 2
              /\ plog[x][1].e = "acquire"
              /\ \E ev \in ParForkEvents(x) :
                   /\ ev.h = plog[x][1].h
                   /\ ev.h \in ev.info
                   /\ ParHandleFromEnclosing(ev.h, x)
       /\ pinv[x].pc \notin {"none", "enter"} => Len(plog[x]) >= 2 /\ plog[x][2].e = "body_begin"
       /\ pinv[x].pc = "done" =>
            /\ plog[x][Len(plog[x])].e = "exit_release"
            /\ plog[x][Len(plog[x]) - 1].e = "body_end"
            /\ \A i \in 1..(Len(plog[x]) - 1) : plog[x][i].e # "exit_release"

\* A thread forked by a thread has ended, and so has a thread that acquired the
\* handle of a branch for a thread that was not serialized.
C23_Witness ==
  /\ \E x \in ParThreads : pinv[x].pc = "done" /\ pinv[ParParent(x)].kind = "thread"
  /\ \E x \in ParThreads : pinv[x].pc = "done" /\ pinv[x].cb[1] = "stolen"

\* The names of the events of an invocation after th.serialized().
RECURSIVE ParAfterSerialized(_)
ParAfterSerialized(evs) ==
  IF evs = <<>> THEN <<>>
  ELSE IF Head(evs).e = "serialized" THEN [i \in 1..(Len(evs) - 1) |-> evs[i + 1].e]
  ELSE ParAfterSerialized(Tail(evs))

ParSerialized(x) ==
  \E i \in 1..Len(plog[x]) : plog[x][i] = ParEvent("serialized", NoHandle, {TRUE})

ParNotSerialized(x) ==
  \E i \in 1..Len(plog[x]) : plog[x][i] = ParEvent("serialized", NoHandle, {FALSE})

IsPrefix(a, b) == Len(a) <= Len(b) /\ \A i \in 1..Len(a) : a[i] = b[i]

ParReturnNames(x) ==
  IF pinv[x].kind = "thread" THEN <<"body_end", "exit_release">> ELSE <<"return">>

\* C30: an invocation whose thread is not serialized does, in this order,
\* release_lazy, the recursion on the right half with a new identity accumulator,
\* release, join, task_group_end, acquire and combine_op, and at combine_op the
\* on-exit release of the thread has happened; an invocation whose thread is
\* serialized makes no second accumulator and does not call combine_op.
C30_ParentOrder ==
  \A x \in ParNodes :
    /\ ParNotSerialized(x) =>
         /\ IsPrefix(ParAfterSerialized(plog[x]),
                     <<"identity", "release_lazy", "recurse", "release", "join",
                       "task_group_end", "acquire", "combine_op">> \o ParReturnNames(x))
         /\ \A i \in 1..Len(plog[x]) :
              /\ plog[x][i].e = "combine_op" => "exit_release" \in plog[x][i].info
              /\ plog[x][i].e = "recurse" =>
                   /\ plog[x][i].h = plog[x][i - 1].h
                   /\ plog[ParRight(x)][1] = ParEvent("call", plog[x][i].h, {})
              /\ plog[x][i].e = "release" => pinv[ParRight(x)].pc = "done"
         /\ pinv[x].pc = "done" => Len(ParAfterSerialized(plog[x])) >= 8
    /\ ParSerialized(x) =>
         /\ IsPrefix(ParAfterSerialized(plog[x]),
                     <<"join", "recurse", "task_group_end">> \o ParReturnNames(x))
         /\ \A i \in 1..Len(plog[x]) : plog[x][i].e \notin {"identity", "combine_op"}

\* An invocation has combined after a thread that ran beside it, and another has
\* ended after a serialized thread.
C30_Witness ==
  /\ \E x \in ParNodes : pinv[x].pc = "done" /\ ParNotSerialized(x)
                         /\ pinv[ParLeft(x)].kind = "thread" /\ ~ParIsLeaf(ParLeft(x))
  /\ \E x \in ParNodes : pinv[x].pc = "done" /\ ParSerialized(x)

\* C24: when the scheduler runs a cross-worker task from ito::poll, the callback
\* has acquired the handle rh of the invocation and then the handle rh_ given by
\* the scheduler, and the requests of neither handle are still in flight.
C24_PollAcquiresBoth ==
  \A x \in ParNodes : \A i \in 1..Len(plog[x]) :
    plog[x][i].e = "cross_worker_task" =>
      /\ i >= 4
      /\ plog[x][i - 3] = ParEvent("poll_release_lazy", plog[x][i].h, {})
      /\ plog[x][i - 2] = ParEvent("acquire", plog[x][1].h, {})
      /\ plog[x][i - 1] = ParEvent("acquire", plog[x][i].h, {})
      /\ plog[x][1].h # NoHandle
      /\ plog[x][1].h # plog[x][i].h
      /\ {plog[x][1].h, plog[x][i].h} \cap plog[x][i].info = {}

\* The scheduler has run a cross-worker task from the poll of the first
\* invocation, whose handle nobody had acquired before, and from the poll of an
\* invocation called with the handle of a branch.
C24_Witness ==
  \/ /\ pargs.n = 1
     /\ \E i \in 1..Len(plog[ParRoot]) : plog[ParRoot][i].e = "cross_worker_task"
  \/ \E x \in ParNodes : /\ pinv[x].kind = "call"
                         /\ plog[x][1].h[1] = "stolen"
                         /\ pinv[x].pc = "done"
                         /\ \E i \in 1..Len(plog[x]) : plog[x][i].e = "cross_worker_task"

(***************************************************************************)
(* reducer::histogram                                                      *)
(***************************************************************************)

\* Largest n_bins_.
MaxBins == 3

\* lowest_, highest_ and the samples are taken from 0..MaxHistVal.
MaxHistVal == 4

\* Samples folded in one run.
MaxHistSamples == 3

\* histogram::identity(): global_vector<Counter>(n_bins_, 0)
hist_identity(h) == [k \in 0..(h.n_bins_ - 1) |-> 0]

\* delta = (highest_ - lowest_) / n_bins_ is zero when T is integral and
\* highest_ - lowest_ < n_bins_; the division by delta then divides by zero.
hist_div_by_zero(h) == h.T = "int" /\ (h.highest_ - h.lowest_) \div h.n_bins_ = 0

\* The key of a sample within [lowest_, highest_]: for a floating-point T,
\* delta = (highest_ - lowest_) / n_bins_ and key = (x - lowest_) / delta,
\* truncated; for an integral T both divisions are integer divisions.
hist_key(h, x) ==
  IF h.T = "double"
  THEN ((x - h.lowest_) * h.n_bins_) \div (h.highest_ - h.lowest_)
  ELSE (x - h.lowest_) \div ((h.highest_ - h.lowest_) \div h.n_bins_)

\* What an integer division by zero can do: trap, or give 0.
DivByZeroOutcomes == {"trap", "zero"}

\* histogram::foldl(acc, x): the accumulator afterwards, the key, whether the
\* range test held and whether the call passed its ITYR_CHECKs without a trap.
hist_foldl(h, acc, x, div0) ==
  IF h.lowest_ <= x /\ x <= h.highest_
  THEN IF hist_div_by_zero(h) /\ div0 = "trap"
       THEN [acc |-> acc, key |-> -1, in_range |-> TRUE, checks |-> FALSE]
       ELSE LET key == IF hist_div_by_zero(h) THEN 0 ELSE hist_key(h, x)
            IN  IF 0 <= key /\ key < h.n_bins_
                THEN [acc |-> [acc EXCEPT ![key] = @ + 1], key |-> key, in_range |-> TRUE,
                      checks |-> TRUE]
                ELSE [acc |-> acc, key |-> key, in_range |-> TRUE, checks |-> FALSE]
  ELSE [acc |-> acc, key |-> -1, in_range |-> FALSE, checks |-> TRUE]

\* histogram::foldl(acc_l, acc_r): transform with c1 + c2 into acc_l.
hist_foldl_acc(acc_l, acc_r) == [k \in DOMAIN acc_l |-> acc_l[k] + acc_r[k]]

\* histogram<T>(n_bins, lowest, highest) with lowest < highest, and the
\* accumulators identity() of the two halves of a reduction.
HistInit ==
  /\ \E T \in {"double", "int"}, n_bins \in 1..MaxBins,
        lowest \in 0..MaxHistVal, highest \in 0..MaxHistVal :
       /\ lowest < highest
       /\ hist = [T |-> T, n_bins_ |-> n_bins, lowest_ |-> lowest, highest_ |-> highest]
       /\ hacc = [side \in {"l", "r"} |-> [k \in 0..(n_bins - 1) |-> 0]]
  /\ hlast = [op |-> "none", n |-> 0, n_in |-> 0, failed |-> FALSE]
  /\ NotHistIdle

\* foldl(acc, x) on the accumulator of one half; a failed ITYR_CHECK ends the run.
HistFoldl ==
  \E side \in {"l", "r"}, x \in 0..MaxHistVal, div0 \in DivByZeroOutcomes :
    LET f == hist_foldl(hist, hacc[side], x, div0)
    IN  /\ ~hlast.failed
        /\ hlast.n < MaxHistSamples
        /\ hacc' = [hacc EXCEPT ![side] = f.acc]
        /\ hlast' = [op |-> "foldl", n |-> hlast.n + 1,
                     n_in |-> hlast.n_in + (IF f.in_range THEN 1 ELSE 0),
                     failed |-> ~f.checks, x |-> x, key |-> f.key,
                     in_range |-> f.in_range, before |-> hacc[side], after |-> f.acc]
        /\ UNCHANGED hist
        /\ UNCHANGED notHist

\* foldl(acc_l, acc_r) when the two halves are combined; the right half goes on
\* with a new identity().
HistCombine ==
  /\ ~hlast.failed
  /\ hlast.op = "foldl"
  /\ hacc' = [l |-> hist_foldl_acc(hacc["l"], hacc["r"]), r |-> hist_identity(hist)]
  /\ hlast' = [op |-> "combine", n |-> hlast.n, n_in |-> hlast.n_in, failed |-> FALSE]
  /\ UNCHANGED hist
  /\ UNCHANGED notHist

HistNext == HistFoldl \/ HistCombine

HistSpec == HistInit /\ [][HistNext]_vars

RECURSIVE SumBins(_, _)
SumBins(acc, n) == IF n = 0 THEN 0 ELSE acc[n - 1] + SumBins(acc, n - 1)

\* C27: foldl(acc, x) with lowest <= x <= highest passes its index checks and
\* increments exactly one bin, whose index is in [0, n_bins); a sample outside
\* [lowest, highest] changes nothing; the bin counts of the two halves sum to the
\* number of samples within the range.
C27_HistogramBins ==
  /\ hlast.op = "foldl" =>
       IF hlast.in_range
       THEN /\ ~hlast.failed
            /\ hlast.key \in 0..(hist.n_bins_ - 1)
            /\ hlast.after = [hlast.before EXCEPT ![hlast.key] = @ + 1]
       ELSE hlast.after = hlast.before /\ ~hlast.failed
  /\ hlast.op # "none" =>
       SumBins(hacc["l"], hist.n_bins_) + SumBins(hacc["r"], hist.n_bins_) = hlast.n_in

\* The last CacheCapacity blocks touched at rank r.
LastTouched(r) ==
  LET t == chist.touched[r]
  IN  {t[i] : i \in {j \in 1..Len(t) : j > Len(t) - CacheCapacity}}

AllCheckedIn == \A b \in CacheBlocks : cheld[b].mode = "none"

\* At most CacheCapacity blocks are resident; as long as the task has made only
\* checkouts and check-ins (no release, no acquire): once every checkout has
\* been checked in the resident blocks are among the last CacheCapacity touched,
\* and are exactly those when no checkout is in progress.
ResidencyInv ==
  \A r \in CacheRanks :
    /\ Cardinality(Resident(r)) <= CacheCapacity
    /\ (AllCheckedIn /\ ~chist.synced) => Resident(r) \subseteq LastTouched(r)
    /\ (AllCheckedIn /\ ~chist.synced /\ ctask.pc = "run") =>
         /\ Resident(r) = LastTouched(r)
         /\ Len(chist.touched[r]) >= CacheCapacity =>
              Cardinality(Resident(r)) = CacheCapacity

\* A checkout of a remote block, made while nothing is checked out by a task that
\* has made only checkouts and check-ins, is a miss exactly when the block is not
\* among the last CacheCapacity touched; a miss in read or read_write mode fetches.
RereadStep ==
  (AllCheckedIn /\ ctask.pc \in {"run", "evicting"} /\ ~chist.synced /\ cheld' # cheld
     /\ ctask.at # BlockOwner(chist'.last.block)) =>
    /\ chist'.last.op = "checkout"
    /\ chist'.last.miss <=> chist'.last.block \notin LastTouched(ctask.at)
    /\ chist'.last.miss => ccache'[ctask.at][chist'.last.block].state = "Fetching"
                           \/ chist'.last.mode = "write"

\* C28: with capacity C at most C blocks are resident; after a sequence of
\* checkouts and check-ins, once every checkout has been checked in, the resident
\* blocks are a subset of the last C touched; after reads of distinct remote
\* blocks one at a time exactly C are resident, and a new read of a block that is
\* no longer among the last C is a miss that fetches.
C28_CacheResidency == []ResidencyInv /\ [][RereadStep]_vars

\* After reads of more distinct remote blocks than the capacity, one at a time,
\* the first block is read again and misses.
C28_Witness ==
  /\ chist.last.op = "checkout"
  /\ chist.last.again
  /\ chist.last.miss
  /\ chist.last.mode = "read"
  /\ chist.nwrites = 0
  /\ ~chist.synced
  /\ Len(chist.touched[chist.last.rank]) = NCacheBlocks
  /\ Cardinality(Resident(chist.last.rank)) = CacheCapacity
  /\ ccache[chist.last.rank][chist.last.block].state = "Fetching"

\* The put that writes the dirty data of the entry back has been issued and has
\* completed.
WrittenBack(r, b) ==
  /\ ccache[r][b].state = "Releasing"
  /\ \A p \in cputs : ~(p.rank = r /\ p.block = b)

\* A step clears a dirty bit only after the put of the entry has completed.
DirtyStep ==
  \A r \in CacheRanks, b \in CacheBlocks :
    (ccache[r][b].dirty /\ ~ccache'[r][b].dirty) => WrittenBack(r, b)

\* A step invalidates an entry, or gives its slab to another block, only when the
\* entry is not pinned and is clean or written back.
InvalidateStep ==
  \A r \in CacheRanks, b \in CacheBlocks :
    (ccache[r][b].state # "Invalid" /\ ccache'[r][b].state = "Invalid") =>
      /\ ccache[r][b].refcount = 0
      /\ ccache[r][b].dirty => WrittenBack(r, b)

\* C29: a dirty bit is cleared only after the put that writes the dirty data back
\* has completed, in release(), in release_lazy() followed by acquire(handle) and
\* in the eviction of a dirty entry; an entry is not invalidated while it is
\* pinned or dirty and not written back.
C29_FlushBeforeClear == [][DirtyStep /\ InvalidateStep]_vars

\* The task has come back with the handle of a release_lazy() whose put has
\* completed, and the flush of the entry has cleared its dirty bit.
C29_Witness ==
  /\ chist.last.op = "flush_done"
  /\ ctask.pc = "enter"
  /\ ctask.handle # {}
  /\ \E h \in ctask.handle : /\ h.rank = ctask.at
                             /\ ccache[h.rank][h.block].state = "Valid"
                             /\ ~ccache[h.rank][h.block].dirty
                             /\ chome[h.block].data = ccache[h.rank][h.block].data

\* The ranks that take the leader's branch in the current round.
Leaders == {r \in Ranks : r = leader_rank[r]}

\* C31: in every round all ranks hold the same leader_rank, alloc_size and trial
\* number, exactly one rank is the leader, all ranks return or all ranks retry at
\* the end of the round, and the leader of a retry round is not the leader of the
\* round before it.
C31_RoundAgreement ==
  /\ \A r \in Ranks, q \in Ranks :
       /\ leader_rank[r] = leader_rank[q]
       /\ alloc_size[r] = alloc_size[q]
       /\ n_trial[r] = n_trial[q]
       /\ pc[r] = "returned" <=> pc[q] = "returned"
       /\ (pc[r] = "reduce" /\ pc[q] = "reduce") => vm_addr[r] = vm_addr[q]
  /\ Cardinality(Leaders) = 1
  /\ \A r \in Ranks :
       /\ n_trial[r] = Len(rounds) - (IF pc[r] = "returned" THEN 1 ELSE 0)
       /\ (pc[r] = "reduce" /\ failed_rank[r] # -1) => r \notin Leaders
  /\ \A k \in 1..Len(rounds) :
       /\ rounds[k].leader \in Ranks
       /\ k < Len(rounds) => rounds[k + 1].leader # rounds[k].leader
       /\ k < Len(rounds) => rounds[k + 1].alloc_size =
                               Min(alloc_size_max(size), 2 * rounds[k].alloc_size)
       /\ (k = Len(rounds) /\ ~Returned) =>
            /\ \A r \in Ranks : leader_rank[r] # rounds[k].leader
            /\ rounds[k].failed # {}

\* Two rounds have failed with different leaders and the third has begun.
C31_Witness ==
  /\ Len(rounds) = 2
  /\ rounds[1].leader # rounds[2].leader
  /\ \A r \in Ranks : n_trial[r] = 2 /\ leader_rank[r] \notin {rounds[2].leader}
  /\ \E r \in Ranks : pc[r] = "reduce"
  /\ \E r \in Ranks : pc[r] = "loop"

\* The deferred reservations of rank r that have not been unmapped.
LivePrev(r) == {i \in DOMAIN prev_vms[r] : prev_vms[r][i].addr # 0}

PrevPages(r, i) == PagesOf(prev_vms[r][i].addr, prev_vms[r][i].size_)

VmPages(r) == IF vm[r].addr # 0 THEN PagesOf(vm[r].addr, vm[r].size_) ELSE {}

\* The pages of the reservations that rank r holds in vm and in prev_vms.
LivePages(r) == VmPages(r) \cup UNION {PrevPages(r, i) : i \in LivePrev(r)}

\* Every reservation held is still mapped and shares no page with another one,
\* so that its destructor unmaps it for the first time; a follower that has tried
\* the fixed-address mapping holds no deferred reservation overlapping the
\* candidate range; on return each rank holds only [addr, addr + size rounded up
\* to the page size), and no page of a reservation of a failed round is mapped
\* apart from those of the returned mapping.
NoLeakInv ==
  \A r \in Ranks :
    /\ LivePages(r) \subseteq mapped[r]
    /\ \A i \in LivePrev(r) :
         /\ PrevPages(r, i) \cap VmPages(r) = {}
         /\ \A j \in LivePrev(r) : i # j => PrevPages(r, i) \cap PrevPages(r, j) = {}
    /\ (pc[r] = "reduce" /\ r # leader_rank[r]) =>
         \A i \in LivePrev(r) :
           /\ ~overlaps(prev_vms[r][i], vm_addr[r], alloc_size[r])
           /\ PrevPages(r, i) \cap PagesOf(vm_addr[r], alloc_size[r]) = {}
    /\ pc[r] = "returned" =>
         /\ prev_vms[r] = <<>>
         /\ vm[r].addr = rounds[Len(rounds)].vm_addr
         /\ LivePages(r) = PagesOf(vm[r].addr, round_up_pow2(size, PageSize))
         /\ \A k \in FailedRounds :
              r \notin rounds[k].failed =>
                PagesOf(rounds[k].vm_addr, rounds[k].alloc_size) \cap mapped[r]
                  \subseteq LivePages(r)

\* A step maps and unmaps only pages of the reservations of the call: the pages
\* mapped outside the reservations held stay the same.
NoLeakStep ==
  \A r \in Ranks : mapped'[r] \ LivePages(r)' = mapped[r] \ LivePages(r)

\* C32: reserve_same_vm_coll leaks no reservation: on return every rank holds one
\* mapping of the call, [addr, addr + size rounded up to the page size), every
\* reservation of a failed round has been unmapped, each one once, and a follower
\* does not try the fixed-address mapping while one of its deferred reservations
\* overlaps the candidate range.
C32_NoLeak == []NoLeakInv /\ [][NoLeakStep]_vars

\* All ranks have returned after two failed rounds with a doubled attempt, and in
\* one round a follower held a deferred reservation overlapping the candidate
\* range.
C32_Witness ==
  /\ Returned
  /\ Len(rounds) = 3
  /\ rounds[3].alloc_size > round_up_pow2(size, PageSize)
  /\ \E r \in Ranks, k \in 1..2, m \in 2..3 :
       /\ k < m
       /\ r \notin rounds[k].failed
       /\ r # rounds[m].leader
       /\ PagesOf(rounds[k].vm_addr, rounds[k].alloc_size)
            \cap PagesOf(rounds[m].vm_addr, rounds[m].alloc_size) # {}

(***************************************************************************)
(* topology: the rank maps of a process.  A layout places each global rank *)
(* on a node; MPI_Comm_split_type(MPI_COMM_TYPE_SHARED) groups the ranks   *)
(* of a node and MPI_Comm_split groups the ranks of equal colour, both     *)
(* ordering a group by the key my_rank().                                  *)
(***************************************************************************)
MaxProcs == 4

MaxNodes == 3

Layouts ==
  UNION {[0..(n - 1) -> 0..(MaxNodes - 1)] : n \in 1..MaxProcs}

\* The rank of p in a communicator of the global ranks in group, ordered by key
\* my_rank().
mpi_comm_rank(group, p) == Cardinality({q \in group : q < p})

mpi_comm_size(group) == Cardinality(group)

\* create_intra_comm: the global ranks in the intra communicator of p.
create_intra_comm(env, p) ==
  IF env.enable_shared_memory
  THEN {q \in DOMAIN env.node : env.node[q] = env.node[p]}
  ELSE {p}

\* create_inter_comm: MPI_Comm_split with colour intra_my_rank().
create_inter_comm(env, p) ==
  IF env.enable_shared_memory
  THEN {q \in DOMAIN env.node :
          mpi_comm_rank(create_intra_comm(env, q), q)
            = mpi_comm_rank(create_intra_comm(env, p), p)}
  ELSE DOMAIN env.node

\* create_process_map: the allgather of every rank's (intra, inter) ranks.
create_process_map(env) ==
  [i \in DOMAIN env.node |->
     [intra_rank |-> mpi_comm_rank(create_intra_comm(env, i), i),
      inter_rank |-> mpi_comm_rank(create_inter_comm(env, i), i)]]

\* The vector built by pushing the elements of S in increasing order.
PushedInOrder(S) ==
  [k \in 1..Cardinality(S) |-> CHOOSE x \in S : Cardinality({y \in S : y < x}) = k - 1]

create_intra2global_rank(process_map, inter_my_rank) ==
  PushedInOrder({i \in DOMAIN process_map : process_map[i].inter_rank = inter_my_rank})

create_inter2global_rank(process_map, intra_my_rank) ==
  PushedInOrder({i \in DOMAIN process_map : process_map[i].intra_rank = intra_my_rank})

\* The ITYR_CHECKs of create_intra2global_rank and create_inter2global_rank.
constructor_checks(t) ==
  /\ Len(t.intra2global_rank_) = t.intra_n_ranks
  /\ \A k \in 1..Len(t.inter2global_rank_) :
       t.process_map_[t.inter2global_rank_[k]].inter_rank = k - 1
  /\ Len(t.inter2global_rank_) = t.inter_n_ranks

\* The members of a topology constructed on global rank p.
topology(env, p) ==
  LET intra == create_intra_comm(env, p)
      inter == create_inter_comm(env, p)
      pm    == create_process_map(env)
  IN  [my_rank            |-> p,
       n_ranks            |-> mpi_comm_size(DOMAIN env.node),
       intra_my_rank      |-> mpi_comm_rank(intra, p),
       intra_n_ranks      |-> mpi_comm_size(intra),
       inter_my_rank      |-> mpi_comm_rank(inter, p),
       inter_n_ranks      |-> mpi_comm_size(inter),
       process_map_       |-> pm,
       intra2global_rank_ |-> create_intra2global_rank(pm, mpi_comm_rank(inter, p)),
       inter2global_rank_ |-> create_inter2global_rank(pm, mpi_comm_rank(intra, p))]

intra_rank(t, global_rank) == t.process_map_[global_rank].intra_rank

inter_rank(t, global_rank) == t.process_map_[global_rank].inter_rank

\* The values of a read of vector v at index i (from 0): any rank_t of the model
\* when i is past the end.
VectorRead(v, i, n_ranks) ==
  IF i < Len(v) THEN {v[i + 1]} ELSE (-1)..(n_ranks - 1)

is_locally_accessible(t, target_global_rank) ==
  inter_rank(t, target_global_rank) = t.inter_my_rank

TopoInit ==
  /\ \E node \in Layouts, shm \in BOOLEAN :
       tenv = [node |-> node, enable_shared_memory |-> shm]
  /\ topo = <<>>
  /\ tlast = [op |-> "none"]
  /\ NotTopoIdle

\* topology(comm) on global rank p
TopoConstruct(p) ==
  /\ p \in DOMAIN tenv.node
  /\ p \notin DOMAIN topo
  /\ LET t == topology(tenv, p)
     IN  /\ topo' = (p :> t) @@ topo
         /\ tlast' = [op |-> "topology", p |-> p, arg |-> 0, ret |-> 0,
                      checks |-> constructor_checks(t)]
  /\ UNCHANGED <<tenv, notTopo>>

TopoIntraRank(p, g) ==
  /\ p \in DOMAIN topo
  /\ 0 <= g /\ g < topo[p].n_ranks
  /\ tlast' = [op |-> "intra_rank", p |-> p, arg |-> g,
               ret |-> intra_rank(topo[p], g), checks |-> TRUE]
  /\ UNCHANGED <<tenv, topo, notTopo>>

TopoInterRank(p, g) ==
  /\ p \in DOMAIN topo
  /\ 0 <= g /\ g < topo[p].n_ranks
  /\ tlast' = [op |-> "inter_rank", p |-> p, arg |-> g,
               ret |-> inter_rank(topo[p], g), checks |-> TRUE]
  /\ UNCHANGED <<tenv, topo, notTopo>>

TopoIntra2Global(p, i) ==
  /\ p \in DOMAIN topo
  /\ 0 <= i /\ i < topo[p].intra_n_ranks
  /\ \E g \in VectorRead(topo[p].intra2global_rank_, i, topo[p].n_ranks) :
       tlast' = [op |-> "intra2global_rank", p |-> p, arg |-> i, ret |-> g,
                 checks |-> TRUE]
  /\ UNCHANGED <<tenv, topo, notTopo>>

TopoInter2Global(p, j) ==
  /\ p \in DOMAIN topo
  /\ 0 <= j /\ j < topo[p].inter_n_ranks
  /\ \E g \in VectorRead(topo[p].inter2global_rank_, j, topo[p].n_ranks) :
       tlast' = [op |-> "inter2global_rank", p |-> p, arg |-> j, ret |-> g,
                 checks |-> TRUE]
  /\ UNCHANGED <<tenv, topo, notTopo>>

TopoIsLocallyAccessible(p, g) ==
  /\ p \in DOMAIN topo
  /\ 0 <= g /\ g < topo[p].n_ranks
  /\ tlast' = [op |-> "is_locally_accessible", p |-> p, arg |-> g,
               ret |-> IF is_locally_accessible(topo[p], g) THEN 1 ELSE 0,
               checks |-> TRUE]
  /\ UNCHANGED <<tenv, topo, notTopo>>

TopoNext ==
  \/ \E p \in 0..(MaxProcs - 1) : TopoConstruct(p)
  \/ \E p \in 0..(MaxProcs - 1), g \in 0..(MaxProcs - 1) : TopoIntraRank(p, g)
  \/ \E p \in 0..(MaxProcs - 1), g \in 0..(MaxProcs - 1) : TopoInterRank(p, g)
  \/ \E p \in 0..(MaxProcs - 1), i \in 0..(MaxProcs - 1) : TopoIntra2Global(p, i)
  \/ \E p \in 0..(MaxProcs - 1), j \in 0..(MaxProcs - 1) : TopoInter2Global(p, j)
  \/ \E p \in 0..(MaxProcs - 1), g \in 0..(MaxProcs - 1) : TopoIsLocallyAccessible(p, g)

TopoSpec == TopoInit /\ [][TopoNext]_vars

\* Global rank g runs on the node of global rank p, or is p itself when shared
\* memory is disabled.
SameNode(p, g) ==
  IF tenv.enable_shared_memory THEN tenv.node[g] = tenv.node[p] ELSE g = p

\* C33: in every layout, on every process the checks of the constructor hold,
\* intra_rank(intra2global_rank(i)) = i, inter_rank(inter2global_rank(j)) = j, and
\* is_locally_accessible(t) is true exactly when t runs on the caller's node (for
\* t = self only when shared memory is disabled).
C33_RankMaps ==
  /\ tlast.op = "topology" => tlast.checks
  /\ tlast.op = "intra2global_rank" =>
       /\ tlast.ret \in DOMAIN tenv.node
       /\ intra_rank(topo[tlast.p], tlast.ret) = tlast.arg
  /\ tlast.op = "inter2global_rank" =>
       /\ tlast.ret \in DOMAIN tenv.node
       /\ inter_rank(topo[tlast.p], tlast.ret) = tlast.arg
  /\ tlast.op = "is_locally_accessible" =>
       (tlast.ret = 1 <=> SameNode(tlast.p, tlast.arg))

(***************************************************************************)
(* mpi_win_manager<void>: the owner of an MPI window.  A window handle is  *)
(* a number from 1, MPI_WIN_NULL is 0; a base pointer is a number from 1,  *)
(* nullptr is 0.                                                           *)
(***************************************************************************)
NWinObjs == 3

MaxWins == 2

MaxBasePtr == 2

WinObjs == 1..NWinObjs

MPI_WIN_NULL == 0

NoWinOp == [op |-> "none"]

\* The window handle MPI returns from a creation call.
NewWin == CHOOSE w \in 1..MaxWins : wwins[w].locks = 0 /\ \A v \in 1..(w - 1) : wwins[v].locks > 0

\* MPI_Win_lock_all(0, win_) after the creation of the window
win_lock_all(W, w) == [W EXCEPT ![w].locks = @ + 1]

\* ~mpi_win_manager(): MPI_Win_unlock_all and MPI_Win_free unless win_ is null
win_destroy(W, o) ==
  IF o.win_ # MPI_WIN_NULL
  THEN [W EXCEPT ![o.win_].unlocks = @ + 1, ![o.win_].frees = @ + 1]
  ELSE W

\* The object after its destructor: MPI_Win_free sets the handle to MPI_WIN_NULL.
win_destroyed(o) == [o EXCEPT !.win_ = MPI_WIN_NULL]

WinInit ==
  /\ wobjs = [i \in WinObjs |-> [win_ |-> MPI_WIN_NULL, baseptr_ |-> 0]]
  /\ walive = {}
  /\ wwins = [w \in 1..MaxWins |-> [locks |-> 0, unlocks |-> 0, frees |-> 0]]
  /\ wlast = NoWinOp
  /\ NotWinIdle

\* mpi_win_manager()
WinDefaultCtor(i) ==
  /\ i \notin walive
  /\ wobjs' = [wobjs EXCEPT ![i] = [win_ |-> MPI_WIN_NULL, baseptr_ |-> 0]]
  /\ walive' = walive \cup {i}
  /\ wlast' = [op |-> "default_ctor", dst |-> i]
  /\ UNCHANGED <<wwins, notWin>>

\* mpi_win_manager(comm): MPI_Win_create_dynamic, MPI_Win_lock_all
WinDynamicCtor(i) ==
  /\ i \notin walive
  /\ \E w \in 1..MaxWins : wwins[w].locks = 0
  /\ wobjs' = [wobjs EXCEPT ![i] = [win_ |-> NewWin, baseptr_ |-> 0]]
  /\ wwins' = win_lock_all(wwins, NewWin)
  /\ walive' = walive \cup {i}
  /\ wlast' = [op |-> "dynamic_ctor", dst |-> i]
  /\ UNCHANGED notWin

\* mpi_win_manager(comm, size): MPI_Win_allocate returns the base pointer
WinAllocateCtor(i) ==
  /\ i \notin walive
  /\ \E w \in 1..MaxWins : wwins[w].locks = 0
  /\ \E baseptr \in 1..MaxBasePtr :
       wobjs' = [wobjs EXCEPT ![i] = [win_ |-> NewWin, baseptr_ |-> baseptr]]
  /\ wwins' = win_lock_all(wwins, NewWin)
  /\ walive' = walive \cup {i}
  /\ wlast' = [op |-> "allocate_ctor", dst |-> i]
  /\ UNCHANGED notWin

\* mpi_win_manager(comm, baseptr, size): MPI_Win_create over the caller's memory
WinCreateCtor(i) ==
  /\ i \notin walive
  /\ \E w \in 1..MaxWins : wwins[w].locks = 0
  /\ \E baseptr \in 0..MaxBasePtr :
       wobjs' = [wobjs EXCEPT ![i] = [win_ |-> NewWin, baseptr_ |-> baseptr]]
  /\ wwins' = win_lock_all(wwins, NewWin)
  /\ walive' = walive \cup {i}
  /\ wlast' = [op |-> "create_ctor", dst |-> i]
  /\ UNCHANGED notWin

\* ~mpi_win_manager()
WinDtor(i) ==
  /\ i \in walive
  /\ wwins' = win_destroy(wwins, wobjs[i])
  /\ wobjs' = [wobjs EXCEPT ![i] = win_destroyed(wobjs[i])]
  /\ walive' = walive \ {i}
  /\ wlast' = [op |-> "dtor", dst |-> i]
  /\ UNCHANGED notWin

\* mpi_win_manager(mpi_win_manager&& wm): win_(wm.win_), baseptr_ keeps its
\* default member initialiser nullptr.
WinMoveCtor(i, j) ==
  /\ i \notin walive
  /\ j \in walive
  /\ wobjs' = [wobjs EXCEPT ![i] = [win_ |-> wobjs[j].win_, baseptr_ |-> 0],
                            ![j] = [wobjs[j] EXCEPT !.win_ = MPI_WIN_NULL]]
  /\ walive' = walive \cup {i}
  /\ wlast' = [op |-> "move_ctor", dst |-> i, src |-> j, win |-> wobjs[j].win_,
               baseptr |-> wobjs[j].baseptr_]
  /\ UNCHANGED <<wwins, notWin>>

\* operator=(mpi_win_manager&& wm): the destructor, then win_ = wm.win_ and
\* wm.win_ = MPI_WIN_NULL (i = j included); baseptr_ is not assigned.
WinMoveAssign(i, j) ==
  /\ i \in walive
  /\ j \in walive
  /\ LET o1 == [wobjs EXCEPT ![i] = win_destroyed(wobjs[i])]
         o2 == [o1 EXCEPT ![i].win_ = o1[j].win_]
     IN  wobjs' = [o2 EXCEPT ![j].win_ = MPI_WIN_NULL]
  /\ wwins' = win_destroy(wwins, wobjs[i])
  /\ wlast' = [op |-> "move_assign", dst |-> i, src |-> j, win |-> wobjs[j].win_,
               baseptr |-> wobjs[j].baseptr_]
  /\ UNCHANGED <<walive, notWin>>

WinNext ==
  \/ \E i \in WinObjs : WinDefaultCtor(i)
  \/ \E i \in WinObjs : WinDynamicCtor(i)
  \/ \E i \in WinObjs : WinAllocateCtor(i)
  \/ \E i \in WinObjs : WinCreateCtor(i)
  \/ \E i \in WinObjs : WinDtor(i)
  \/ \E i \in WinObjs, j \in WinObjs : WinMoveCtor(i, j)
  \/ \E i \in WinObjs, j \in WinObjs : WinMoveAssign(i, j)

WinSpec == WinInit /\ [][WinNext]_vars

\* The constructed objects whose win() is w.
WinHolders(w) == {i \in walive : wobjs[i].win_ = w}

\* Every window created was locked once right after its creation; it is held by
\* one object and locked until it is unlocked and freed, once, and then held by
\* none.
WinLockedUntilFreed ==
  \A w \in 1..MaxWins :
    /\ wwins[w].locks <= 1
    /\ wwins[w].unlocks <= wwins[w].locks
    /\ wwins[w].frees = wwins[w].unlocks
    /\ Cardinality(WinHolders(w)) = wwins[w].locks - wwins[w].frees

\* C34: every window is locked right after creation and stays locked until it is
\* unlocked and freed exactly once, over any sequence of move constructions, move
\* assignments and destructions; after a move from another object the
\* destination reports the win() and the baseptr() the source had, and the source
\* has no window.
C34_WinOwnership ==
  /\ WinLockedUntilFreed
  /\ (wlast.op \in {"move_ctor", "move_assign"} /\ wlast.dst # wlast.src) =>
       /\ wobjs[wlast.dst].win_ = wlast.win
       /\ wobjs[wlast.dst].baseptr_ = wlast.baseptr
       /\ wobjs[wlast.src].win_ = MPI_WIN_NULL

(***************************************************************************)
(* Properties of virtual_mem                                               *)
(***************************************************************************)

\* The pages of the mapping that the live object i owns.
OwnedPages(i) == IF i \in alive /\ objs[i].addr # 0
                 THEN PagesOf(objs[i].addr, objs[i].size_) ELSE {}

\* Every mapping has exactly one owner, is mapped as long as it has one, and no
\* munmap was ever called on a page that was not mapped.
VmemOwnership ==
  /\ \A i, j \in Objs : i # j => OwnedPages(i) \cap OwnedPages(j) = {}
  /\ vmapped = UNION {OwnedPages(i) : i \in Objs}
  /\ ~vlast.twice
  /\ \A i \in Objs \ alive : objs[i] = NullVm

\* What one operation on a virtual_mem object does to the mappings.
VmemStep ==
  LET op == vlast'.op
  IN  /\ op.name = "addr_ctor" =>
           /\ vlast'.thrown <=> PagesOf(op.addr, op.size) \cap vmapped # {}
           /\ vlast'.thrown => /\ vmapped' = vmapped /\ objs' = objs /\ alive' = alive
           /\ ~vlast'.thrown => /\ op.dst \in alive'
                                /\ objs'[op.dst] = [addr |-> op.addr, size_ |-> op.size]
                                /\ vmapped' = vmapped \cup PagesOf(op.addr, op.size)
      /\ (op.name = "move_ctor" \/ (op.name = "move_assign" /\ op.dst # op.src)) =>
           /\ objs'[op.dst] = objs[op.src]
           /\ objs'[op.src].addr = 0
           /\ OwnedPages(op.src) \subseteq vmapped'
           /\ vmapped \ vmapped' = (IF op.name = "move_assign" THEN OwnedPages(op.dst) ELSE {})
      /\ (op.name = "move_assign" /\ op.dst = op.src) =>
           /\ objs'[op.dst].addr = 0
           /\ vmapped \ vmapped' = OwnedPages(op.dst)
      /\ op.name = "dtor" =>
           /\ vmapped \ vmapped' = OwnedPages(op.dst)
           /\ op.addr # 0 => mmap_no_physical_mem_fixed(vmapped', op.addr, op.size).ok
      /\ vlast'.freed \subseteq vmapped
      /\ vlast'.freed \cap vmapped' = {}

\* C12: virtual_mem(addr, size) over a live mapping throws
\* mmap_noreplace_exception and changes nothing; a move construction or move
\* assignment hands the mapping, still mapped, to the target and leaves the
\* source owning nothing; every mapping is unmapped exactly once, when its last
\* owner is destroyed or move-assigned over, and can then be mapped again.
C12_VirtualMemOwnership == []VmemOwnership /\ [][VmemStep]_vars

C12_Witness ==
  /\ vlast.op.name = "addr_ctor"
  /\ vlast.thrown
  /\ \E i, j \in alive :
       /\ objs[i].addr = vlast.op.addr
       /\ objs[j].addr = 0
       /\ PagesOf(objs[i].addr, objs[i].size_) \subseteq vmapped

(***************************************************************************)
(* Properties of checkout_span                                             *)
(***************************************************************************)

\* The live spans that hold the checkout (pointer, length, mode) k.
Holders(k) ==
  {i \in span_alive : spans[i].ptr_ = k.ptr /\ spans[i].n_ = k.n /\ spans[i].mode = k.mode}

\* Every checkout is held by exactly one live span, no checkin named anything
\* that was not checked out, and a span without a pointer has length 0.
SpanBalance ==
  /\ ~slast.bad
  /\ \A k \in CheckoutKeys : outstanding[k] = Cardinality(Holders(k))
  /\ \A i \in span_alive : spans[i].ptr_ = 0 => spans[i].n_ = 0
  /\ span_alive = {} => \A k \in CheckoutKeys : outstanding[k] = 0

\* The checkin of what span cs holds, if it holds something.
CheckinOf(cs) ==
  IF cs.ptr_ # 0 THEN <<[call |-> "checkin", ptr |-> cs.ptr_, n |-> cs.n_, mode |-> cs.mode]>>
  ELSE <<>>

\* The ori calls of one operation on a span and what it leaves in the spans.
SpanStep ==
  LET op == slast'.op
  IN  /\ op.name \in {"dtor", "checkin"} =>
           /\ slast'.calls = CheckinOf(spans[op.dst])
           /\ spans'[op.dst].ptr_ = 0 /\ spans'[op.dst].n_ = 0
      /\ op.name = "move_ctor" =>
           /\ slast'.calls = <<>>
           /\ spans'[op.dst] = spans[op.src]
           /\ spans'[op.src].ptr_ = 0 /\ spans'[op.src].n_ = 0
      /\ op.name = "move_assign" =>
           /\ slast'.calls = CheckinOf(spans[op.dst])
           /\ op.dst # op.src => spans'[op.dst] = spans[op.src]
           /\ spans'[op.src].ptr_ = 0 /\ spans'[op.src].n_ = 0
      /\ op.name \in {"checkout", "checkout_nb"} =>
           /\ Len(slast'.calls) = Len(CheckinOf(spans[op.dst])) + 1
           /\ SubSeq(slast'.calls, 1, Len(slast'.calls) - 1) = CheckinOf(spans[op.dst])
           /\ LET c == slast'.calls[Len(slast'.calls)]
              IN  /\ c.call = op.name
                  /\ spans'[op.dst] = [ptr_ |-> c.ptr, n_ |-> c.n, mode |-> spans[op.dst].mode]
                  /\ c.mode = spans[op.dst].mode
      /\ op.name \in {"default_ctor"} => slast'.calls = <<>>

\* C13: over any sequence of constructions, move constructions, move
\* assignments (onto a span that holds a checkout included), manual
\* checkout()/checkout_nb()/checkin() and destructions, every pointer obtained
\* from ori::checkout or ori::checkout_nb is passed to ori::checkin exactly once
\* with the same length and mode; a moved-from or checked-in span is inert; once
\* all spans are destroyed no checkout is outstanding.
C13_CheckinExactlyOnce == []SpanBalance /\ [][SpanStep]_vars

C13_Witness ==
  /\ slast.op.name = "move_assign"
  /\ slast.op.dst # slast.op.src
  /\ Len(slast.calls) = 1
  /\ spans[slast.op.dst].ptr_ # 0
  /\ spans[slast.op.src].ptr_ = 0
  /\ outstanding[[ptr |-> spans[slast.op.dst].ptr_, n |-> spans[slast.op.dst].n_,
                  mode |-> spans[slast.op.dst].mode]] = 1

\* The global iterators among its, in order.
GlobalOnes(its) == SelectSeq(its, LAMBDA it : it.global)

====
